---- MODULE Spec2Model ----
(***************************************************************************)
(* EgoLift: the reaction engine (src/lib/personality.ts), the milestone    *)
(* detector (src/lib/milestones.ts, held in src/src/lib/friends.ts) and    *)
(* the workout-save flow (WorkoutLogger.handleSave with the AppProvider    *)
(* callbacks).                                                             *)
(*                                                                         *)
(* Numbers.  A nullable number is an integer with NULL standing for null.  *)
(* An RPE is kept in half points (rpe 9.5 is 19).  An estimated 1RM is kept*)
(* times 30 (E1RM30), so that the Epley value weight * (1 + reps/30) is    *)
(* the integer weight * (30 + reps) and comparisons are exact.             *)
(* A reaction's message is the variant table's key for the mode: the text  *)
(* picked at random inside one table entry is not told apart, only the     *)
(* empty string of mode 'silent' is.  A reaction also records the index of *)
(* the entry that emitted it (0 for the log-level reactions), which the    *)
(* code does not store; nothing in the model reads it except the           *)
(* properties.                                                             *)
(***************************************************************************)
EXTENDS Integers, Sequences, FiniteSets, Bags, TLC

VARIABLES
    \* ---- evaluateReactions / detector applied to drawn inputs
    currentLog,     \* the WorkoutLog handed to evaluateReactions
    allLogs,        \* the log history handed to it (holds currentLog too)
    evalSettings,   \* the UserSettings handed to it
    evalPc,         \* "input" | "evaluated" | "done"
    reactions,      \* the local array `reactions` before the final sort
    evalResult,     \* the returned list
    evalThrew,      \* TRUE when the call ended by an exception
    detPlan,        \* the publish calls detectAndPublishMilestones issues
    \* ---- the application: AppProvider state, stores, save flow, detection runs
    settings,       \* AppProvider `settings` (and the stored settings document)
    workoutLogs,    \* AppProvider `workoutLogs` (and the stored logs)
    today,          \* the calendar day, as a day number
    nextId,         \* source of fresh log ids (uuidv4)
    saver,          \* the WorkoutLogger session and its handleSave call
    runs,           \* the detectAndPublishMilestones calls started so far
    milestones,     \* the 'milestones' collection: a bag of documents
    rejects,        \* network calls rejected so far
    deletes,        \* logs deleted so far
    \* ---- the functions of calculations.ts and calculateStreak on drawn inputs
    calcIn,         \* the function called and its arguments
    calcOut,        \* the value returned
    calcPc,         \* "off" | "input" | "done"
    \* ---- syncLocalToCloud: the local and the cloud store of one user
    localDb,        \* IndexedDB: [settings, logs]
    cloudDb,        \* Firestore users/{uid}: [settings, logs]
    sync,           \* the syncLocalToCloud calls made so far and the one running
    \* ---- friends.ts: the shared collections and the calls in flight
    friends,        \* [requests, friendships, calls]
    cheers,         \* [celebrations, celebrationCount, calls]
    \* ---- one WorkoutLogger session: its renders and its handleSave calls
    logger          \* [mounted, isSaving, rendered, calls, saved, ...]

evalVars == <<currentLog, allLogs, evalSettings, evalPc, reactions, evalResult,
              evalThrew, detPlan>>
appVars == <<settings, workoutLogs, today, nextId, saver, runs, milestones,
            rejects, deletes>>
calcVars == <<calcIn, calcOut, calcPc>>
syncVars == <<localDb, cloudDb, sync>>
socialVars == <<friends, cheers>>
auxVars == <<calcIn, calcOut, calcPc, localDb, cloudDb, sync, friends, cheers,
             logger>>
vars == <<currentLog, allLogs, evalSettings, evalPc, reactions, evalResult,
          evalThrew, detPlan, settings, workoutLogs, today, nextId, saver,
          runs, milestones, rejects, deletes, calcIn, calcOut, calcPc,
          localDb, cloudDb, sync, friends, cheers, logger>>

NULL == -1

\* ------------------------------------------------------------------ helpers

Range(s) == {s[i] : i \in 1..Len(s)}

SetMax(S) == CHOOSE x \in S : \A y \in S : y <= x

SetMin(S) == CHOOSE x \in S : \A y \in S : x <= y

Take(s, n) == SubSeq(s, 1, IF n < Len(s) THEN n ELSE Len(s))

\* JavaScript truthiness of a nullable number: neither null nor 0.
Truthy(x) == x # NULL /\ x # 0

\* (x || 0) for a nullable number.
OrZero(x) == IF x = NULL THEN 0 ELSE x

Abs(x) == IF x < 0 THEN -x ELSE x

\* ------------------------------------------------------- calculations.ts

\* The Epley value for every positive reps, times 30.
estimateE1RM30Epley(weight, reps) ==
    IF reps <= 0 THEN 0 ELSE weight * (30 + reps)

\* estimateE1RM, times 30.
estimateE1RM30(weight, reps) ==
    IF reps <= 0 THEN 0
    ELSE IF reps = 1 THEN weight * 30
    ELSE weight * (30 + reps)

\* Math.round of an E1RM30 value divided by 30 (round half up).
RoundE1RM(e30) == (2 * e30 + 30) \div 60

\* The quotient rounded half away from zero.
MathRoundQuotAwayFromZero(value, increment) ==
    LET a == Abs(value)
        b == Abs(increment)
        n == (a \div b) + (IF 2 * (a % b) >= b THEN 1 ELSE 0)
    IN IF (value < 0) # (increment < 0) THEN -n ELSE n

\* Math.round(value / increment): floor(q + 1/2) of the exact quotient q.
\* With the small integers used here the floating-point quotient rounds as
\* the exact one does.
MathRoundQuot(value, increment) ==
    LET a == IF increment < 0 THEN -value ELSE value
        b == IF increment < 0 THEN -increment ELSE increment
        f == a \div b
        r == a % b
    IN IF 2 * r >= b THEN f + 1 ELSE f

\* roundToIncrement; value, increment and result in one fixed-point unit.
roundToIncrement(value, increment) ==
    IF increment = 0 THEN value
    ELSE MathRoundQuot(value, increment) * increment

\* LBS_TO_KG = 0.45359237, times 10^8.
LBS_TO_KG_E8 == 45359237

\* The fixed-point unit of a load: 1/100 lb, or 10^-8 kg.
LoadScale(units) == IF units = "lbs" THEN 100 ELSE 100000000

\* convertWeight(value, 'lbs', to) of a whole number of pounds, in the
\* fixed-point unit of `to`.
convertWeight(value, to) ==
    IF to = "lbs" THEN value * 100 ELSE value * LBS_TO_KG_E8

\* x * percent with percent in hundredths, x and the result in one
\* fixed-point unit (cut below 10^-8 kg).
TimesPercent(x, percent100) ==
    (x \div 100) * percent100 + ((x % 100) * percent100) \div 100

\* A load that rounds the converted training max before the percentage.
computeLoadRoundFirst(trainingMaxLbs, percent100, roundingIncrement10, displayUnits) ==
    LET tmInDisplayUnits == convertWeight(trainingMaxLbs, displayUnits)
        exact == TimesPercent(tmInDisplayUnits, percent100)
        rounded == TimesPercent(
                       roundToIncrement(tmInDisplayUnits,
                           roundingIncrement10 * (LoadScale(displayUnits) \div 10)),
                       percent100)
    IN [rounded |-> rounded, exact |-> exact]

\* computeLoad with the training max in pounds, percent in hundredths and
\* roundingIncrement in tenths of the display unit; rounded and exact are in
\* the fixed-point unit of displayUnits.
computeLoad(trainingMaxLbs, percent100, roundingIncrement10, displayUnits) ==
    LET tmInDisplayUnits == convertWeight(trainingMaxLbs, displayUnits)
        exact == TimesPercent(tmInDisplayUnits, percent100)
        rounded == roundToIncrement(exact,
                       roundingIncrement10 * (LoadScale(displayUnits) \div 10))
    IN [rounded |-> rounded, exact |-> exact]

\* ------------------------------------------------------- personality.ts

\* The phase boundaries taken one week early.
getProgramPhaseEarly(weekNumber) ==
    IF weekNumber < 4 THEN "accumulation"
    ELSE IF weekNumber < 8 THEN "intensification"
    ELSE IF weekNumber < 11 THEN "peaking"
    ELSE IF weekNumber < 15 THEN "competition-prep"
    ELSE "taper"

getProgramPhase(weekNumber) ==
    IF weekNumber <= 4 THEN "accumulation"
    ELSE IF weekNumber <= 8 THEN "intensification"
    ELSE IF weekNumber <= 11 THEN "peaking"
    ELSE IF weekNumber <= 15 THEN "competition-prep"
    ELSE "taper"

\* getMessageForMode over a variant table named by `key`: '' for 'silent',
\* otherwise one of the (non-empty) texts of the table entry of the mode.
getMessageForMode(key, mode) ==
    IF mode = "silent" THEN "" ELSE key

\* The lower-cased exercise names of the program that the model draws, with
\* the keywords each contains (String.includes on the lower-cased name).
NameIncludes(exerciseName, kw) ==
    CASE exerciseName = "Competition Squat" ->
            kw \in {"competition squat", "squat"}
      [] exerciseName = "Competition Pause Bench" ->
            kw \in {"competition pause bench", "bench"}
      [] exerciseName = "Competition Deadlift" ->
            kw \in {"competition deadlift", "deadlift"}
      [] exerciseName = "SLDL" -> kw \in {"sldl"}
      [] OTHER -> FALSE

MAIN_LIFT_KEYWORDS ==
    {"competition squat", "competition pause bench", "competition deadlift",
     "paused bench", "squat", "bench", "deadlift", "sldl", "close grip",
     "2ct pause", "3ct pause", "pin squat", "pin bench"}

isAccessory(exerciseName) ==
    ~ \E kw \in MAIN_LIFT_KEYWORDS : NameIncludes(exerciseName, kw)

\* The loop header shared by the four history scans: the logs other than the
\* current one that have completedAt set.
ScannedLogs(currentLogId, logs) ==
    {l \in 1..Len(logs) : logs[l].id # currentLogId /\ logs[l].completedAt}

\* The entries a scan looks at inside a log: same name, not skipped.
ScannedEntries(log, exerciseName) ==
    {e \in 1..Len(log.entries) :
        log.entries[e].exerciseName = exerciseName /\ ~log.entries[e].skipped}

\* The completed-flag-independent part of the three "best previous" scans
\* and of the RPE scan: every set of a scanned entry of a scanned log.
PriorSets(exerciseName, currentLogId, logs) ==
    UNION {UNION {Range(logs[l].entries[e].sets) :
                    e \in ScannedEntries(logs[l], exerciseName)} :
             l \in ScannedLogs(currentLogId, logs)}

getBestPreviousWeight(exerciseName, currentLogId, logs) ==
    LET ws == {s.weight : s \in
                 {x \in PriorSets(exerciseName, currentLogId, logs) :
                    x.completed /\ x.weight # NULL}}
    IN IF ws = {} THEN NULL ELSE SetMax(ws)

getBestPreviousE1RM(exerciseName, currentLogId, logs) ==
    LET es == {estimateE1RM30(s.weight, s.reps) : s \in
                 {x \in PriorSets(exerciseName, currentLogId, logs) :
                    x.completed /\ Truthy(x.weight) /\ Truthy(x.reps) /\ x.reps > 0}}
    IN IF es = {} THEN NULL ELSE SetMax(es)

\* The most reps of a prior completed set at whatever weight.
getBestPreviousRepsAnyWeight(exerciseName, weight, currentLogId, logs) ==
    LET rs == {s.reps : s \in
                 {x \in PriorSets(exerciseName, currentLogId, logs) :
                    x.completed /\ x.weight # NULL /\ x.reps # NULL}}
    IN IF rs = {} THEN NULL ELSE SetMax(rs)

getBestPreviousReps(exerciseName, weight, currentLogId, logs) ==
    LET rs == {s.reps : s \in
                 {x \in PriorSets(exerciseName, currentLogId, logs) :
                    x.completed /\ x.weight = weight /\ x.reps # NULL}}
    IN IF rs = {} THEN NULL ELSE SetMax(rs)

\* Whether a set stops the scan of getLastRPEForExercise.
RpeMatch(s, weight) ==
    s.completed /\ s.rpe # NULL /\ s.weight # NULL /\ Abs(s.weight - weight) <= 5

\* getLastRPEForExercise: the first matching set in array order (logs, then
\* entries, then sets).
getLastRPEForExercise(exerciseName, weight, currentLogId, logs) ==
    LET hit(l) == {e \in ScannedEntries(logs[l], exerciseName) :
                     \E s \in Range(logs[l].entries[e].sets) : RpeMatch(s, weight)}
        ls == {l \in ScannedLogs(currentLogId, logs) : hit(l) # {}}
    IN IF ls = {} THEN NULL
       ELSE LET l == SetMin(ls)
                e == SetMin(hit(l))
                ss == logs[l].entries[e].sets
                i == SetMin({k \in 1..Len(ss) : RpeMatch(ss[k], weight)})
            IN ss[i].rpe

Reaction(triggerType, message, category, priority, entry) ==
    [triggerType |-> triggerType, message |-> message, category |-> category,
     priority |-> priority, entry |-> entry]

IsCompletedWeighted(s) == s.completed /\ s.weight # NULL

\* entry.sets.filter(s => s.completed && s.weight !== null)
CompletedSets(entry) == SelectSeq(entry.sets, IsCompletedWeighted)

NoCompletedSetsUnguarded(completedSets) == FALSE

\* The guard `if (completedSets.length === 0) continue`.
NoCompletedSets(completedSets) == Len(completedSets) = 0

\* Math.max(...completedSets.map(s => s.weight))
BestWeight(completedSets) == SetMax({completedSets[i].weight : i \in 1..Len(completedSets)})

\* The reduce callback: s replaces best on a higher weight, or on the same
\* weight with more reps.
Better(s, best) ==
    \/ s.weight > best.weight
    \/ (s.weight = best.weight /\ OrZero(s.reps) > OrZero(best.reps))

RECURSIVE ReduceBest(_, _, _)
ReduceBest(completedSets, i, best) ==
    IF i > Len(completedSets) THEN best
    ELSE ReduceBest(completedSets, i + 1,
                    IF Better(completedSets[i], best) THEN completedSets[i] ELSE best)

\* completedSets.reduce(...) without an initial value, on a non-empty array.
BestSet(completedSets) == ReduceBest(completedSets, 2, completedSets[1])

\* An entry the loop body runs for.
Scanned(entry) == ~entry.skipped /\ ~NoCompletedSets(CompletedSets(entry))

\* Array.prototype.reduce of an empty array with no initial value throws.
EntryThrows(entry) == Scanned(entry) /\ Len(CompletedSets(entry)) = 0

WeightPRLoose(bestWeight, prevBestWeight) ==
    prevBestWeight # NULL /\ bestWeight >= prevBestWeight

\* prevBestWeight !== null && bestWeight > prevBestWeight
WeightPR(bestWeight, prevBestWeight) ==
    prevBestWeight # NULL /\ bestWeight > prevBestWeight

E1RMPRLoose(currentE1RM, prevBestE1RM) ==
    prevBestE1RM # NULL /\ currentE1RM >= prevBestE1RM

\* prevBestE1RM !== null && currentE1RM > prevBestE1RM
E1RMPR(currentE1RM, prevBestE1RM) ==
    prevBestE1RM # NULL /\ currentE1RM > prevBestE1RM

\* The training max the sandbagging heuristic picks, or NULL.
SandbagTM(exerciseName, st) ==
    IF NameIncludes(exerciseName, "squat") THEN st.trainingMaxes.squat
    ELSE IF NameIncludes(exerciseName, "bench") THEN st.trainingMaxes.bench
    ELSE IF NameIncludes(exerciseName, "deadlift") THEN st.trainingMaxes.deadlift
    ELSE NULL

\* bestSet.weight / tm < 0.65, with tm = tmLbs for 'lbs' and tmLbs * 0.45359237
\* for 'kg' (cross-multiplied).
BelowSandbagLine(weight, tmLbs, units) ==
    IF units = "lbs" THEN weight * 100 < 65 * tmLbs
    ELSE weight * 100 * 100000000 < 65 * 45359237 * tmLbs

\* The reactions one pass of the entry loop pushes, in push order.
EntryReactions(entry, idx, log, logs, st) ==
    IF ~Scanned(entry) \/ EntryThrows(entry) THEN <<>>
    ELSE
    LET mode == st.personalityMode
        cs == CompletedSets(entry)
        bestWeight == BestWeight(cs)
        bestSet == BestSet(cs)
        name == entry.exerciseName
        prevBestWeight == getBestPreviousWeight(name, log.id, logs)
        prW == IF WeightPR(bestWeight, prevBestWeight)
               THEN <<Reaction("pr-weight", getMessageForMode("pr-weight", mode), "PR", 100, idx)>>
               ELSE <<>>
        prE == IF /\ Truthy(bestSet.weight) /\ Truthy(bestSet.reps) /\ bestSet.reps > 0
                  /\ E1RMPR(estimateE1RM30(bestSet.weight, bestSet.reps),
                            getBestPreviousE1RM(name, log.id, logs))
               THEN <<Reaction("pr-e1rm", getMessageForMode("pr-e1rm", mode), "PR", 95, idx)>>
               ELSE <<>>
        prR == IF /\ Truthy(bestSet.weight) /\ Truthy(bestSet.reps)
                  /\ LET prevBestReps == getBestPreviousReps(name, bestSet.weight, log.id, logs)
                     IN prevBestReps # NULL /\ bestSet.reps > prevBestReps
               THEN <<Reaction("pr-rep", getMessageForMode("pr-rep", mode), "PR", 90, idx)>>
               ELSE <<>>
        drop == IF /\ bestSet.rpe # NULL /\ bestSet.weight # NULL
                   /\ LET lastRPE == getLastRPEForExercise(name, bestSet.weight, log.id, logs)
                      IN lastRPE # NULL /\ bestSet.rpe < lastRPE
                THEN <<Reaction("rpe-drop", getMessageForMode("rpe-drop", mode), "PERFORMANCE", 70, idx)>>
                ELSE <<>>
        sand == IF /\ bestSet.rpe # NULL /\ bestSet.rpe >= 16 /\ bestSet.weight # NULL
                   /\ Truthy(SandbagTM(name, st))
                   /\ BelowSandbagLine(bestSet.weight, SandbagTM(name, st), st.units)
                THEN <<Reaction("rpe-sandbagging", getMessageForMode("rpe-sandbagging", mode), "OBSERVATION", 50, idx)>>
                ELSE <<>>
        grind == IF bestSet.rpe # NULL /\ bestSet.rpe >= 19
                 THEN <<Reaction("grind-complete", getMessageForMode("grind-complete", mode), "PERFORMANCE", 60, idx)>>
                 ELSE <<>>
    IN prW \o prE \o prR \o drop \o sand \o grind

RECURSIVE LoopReactions(_, _, _, _)
\* The entry loop from entry i on.
LoopReactions(i, log, logs, st) ==
    IF i > Len(log.entries) THEN <<>>
    ELSE EntryReactions(log.entries[i], i, log, logs, st)
         \o LoopReactions(i + 1, log, logs, st)

\* The skipped-accessories check.
\* One reaction for each skipped accessory.
SkippedReactionsEach(log, st) ==
    LET n == Cardinality({i \in 1..Len(log.entries) :
                 log.entries[i].skipped /\ isAccessory(log.entries[i].exerciseName)})
    IN [k \in 1..n |-> Reaction("skipped-accessories",
                                getMessageForMode("skipped-accessories", st.personalityMode),
                                "OBSERVATION", 30, 0)]

\* The skipped-accessories check: one reaction if the filter keeps an entry.
SkippedReactions(log, st) ==
    IF \E i \in 1..Len(log.entries) :
          log.entries[i].skipped /\ isAccessory(log.entries[i].exerciseName)
    THEN <<Reaction("skipped-accessories",
                    getMessageForMode("skipped-accessories", st.personalityMode),
                    "OBSERVATION", 30, 0)>>
    ELSE <<>>

\* The phase message, pushed when its text is not empty.
PhaseReactions(log, st) ==
    LET phaseMsg == getMessageForMode(getProgramPhase(log.weekNumber), st.personalityMode)
    IN IF phaseMsg # "" THEN <<Reaction("phase-message", phaseMsg, "PHASE", 10, 0)>>
       ELSE <<>>

ShortCircuitAnyWeek(log, st) ==
    \/ ~st.reactionsEnabled
    \/ st.personalityMode = "silent"
    \/ st.disableReactionsDuringTaper

\* The three early returns of evaluateReactions.
ShortCircuit(log, st) ==
    \/ ~st.reactionsEnabled
    \/ st.personalityMode = "silent"
    \/ (st.disableReactionsDuringTaper /\ log.weekNumber = 16)

RECURSIVE Insert(_, _)
\* r put into a list sorted by priority descending, behind the elements of
\* its own priority.
Insert(r, sorted) ==
    IF sorted = <<>> THEN <<r>>
    ELSE IF r.priority > Head(sorted).priority THEN <<r>> \o sorted
    ELSE <<Head(sorted)>> \o Insert(r, Tail(sorted))

RECURSIVE SortFrom(_, _, _)
SortFrom(rs, i, acc) ==
    IF i > Len(rs) THEN acc ELSE SortFrom(rs, i + 1, Insert(rs[i], acc))

\* reactions.sort((a, b) => b.priority - a.priority): a stable sort.
SortByPriority(rs) == SortFrom(rs, 1, <<>>)

SliceInclusive(sorted, n) == Take(sorted, n + 1)

\* reactions.slice(0, n)
Slice(sorted, n) == Take(sorted, n)

\* evaluateReactions: whether it threw, the array before the sort, the value.
evaluateReactions(log, logs, st) ==
    IF ShortCircuit(log, st)
    THEN [threw |-> FALSE, reactions |-> <<>>, value |-> <<>>]
    ELSE IF \E i \in 1..Len(log.entries) : EntryThrows(log.entries[i])
    THEN [threw |-> TRUE, reactions |-> <<>>, value |-> <<>>]
    ELSE LET rs == LoopReactions(1, log, logs, st)
                   \o SkippedReactions(log, st) \o PhaseReactions(log, st)
         IN [threw |-> FALSE, reactions |-> rs,
             value |-> Slice(SortByPriority(rs), st.maxReactionsPerWorkout)]

\* ------------------------------------------------------- milestones.ts

\* A publishMilestone call: the document it adds.  `entry` is the index of
\* the log entry the call was made for (0 otherwise); it is not stored by the
\* code.
Milestone(type, value, unit, exerciseName, entry) ==
    [type |-> type, value |-> value, unit |-> unit,
     exerciseName |-> exerciseName, entry |-> entry]

\* Section 1: allLogs.length <= 1.
FirstWorkoutPlan(logs) ==
    IF Len(logs) <= 1 THEN <<Milestone("first-workout", NULL, "", "", 0)>> ELSE <<>>

\* The log filter of the detector's two inline scans.
DetScannedLogs(log, logs) ==
    {l \in 1..Len(logs) : ~(logs[l].id = log.id \/ ~logs[l].completedAt)}

\* The sets the inline scans reach for an entry: same name, not skipped.
DetPriorSets(entry, log, logs) ==
    UNION {UNION {Range(logs[l].entries[e].sets) :
                    e \in {k \in 1..Len(logs[l].entries) :
                             ~(\/ logs[l].entries[k].exerciseName # entry.exerciseName
                               \/ logs[l].entries[k].skipped)}} :
             l \in DetScannedLogs(log, logs)}

\* prevBest of the weight scan.
DetPrevBest(entry, log, logs) ==
    LET ws == {s.weight : s \in {x \in DetPriorSets(entry, log, logs) :
                                   x.completed /\ x.weight # NULL}}
    IN IF ws = {} THEN NULL ELSE SetMax(ws)

\* prevBestE1RM of the E1RM scan.
DetPrevBestE1RM(entry, log, logs) ==
    LET es == {estimateE1RM30(s.weight, s.reps) : s \in
                 {x \in DetPriorSets(entry, log, logs) :
                    x.completed /\ Truthy(x.weight) /\ Truthy(x.reps) /\ x.reps > 0}}
    IN IF es = {} THEN NULL ELSE SetMax(es)

DetWeightPRLoose(bestWeight, prevBest) == prevBest # NULL /\ bestWeight >= prevBest

\* prevBest !== null && bestWeight > prevBest
DetWeightPR(bestWeight, prevBest) == prevBest # NULL /\ bestWeight > prevBest

\* The publish calls of one pass of the detector's entry loop.
DetEntryPlan(entry, idx, log, logs, st) ==
    LET cs == SelectSeq(entry.sets, IsCompletedWeighted)
    IN IF entry.skipped \/ Len(cs) = 0 THEN <<>>
       ELSE
       LET bestWeight == BestWeight(cs)
           bestSet == BestSet(cs)
           prW == IF DetWeightPR(bestWeight, DetPrevBest(entry, log, logs))
                  THEN <<Milestone("pr-weight", bestWeight, st.units,
                                   entry.exerciseName, idx)>>
                  ELSE <<>>
           prE == IF /\ Truthy(bestSet.weight) /\ Truthy(bestSet.reps) /\ bestSet.reps > 0
                     /\ LET currentE1RM == estimateE1RM30(bestSet.weight, bestSet.reps)
                            prevBestE1RM == DetPrevBestE1RM(entry, log, logs)
                        IN prevBestE1RM # NULL /\ currentE1RM > prevBestE1RM
                  THEN <<Milestone("pr-e1rm",
                                   RoundE1RM(estimateE1RM30(bestSet.weight, bestSet.reps)),
                                   st.units, entry.exerciseName, idx)>>
                  ELSE <<>>
       IN prW \o prE

RECURSIVE DetLoopPlan(_, _, _, _)
DetLoopPlan(i, log, logs, st) ==
    IF i > Len(log.entries) THEN <<>>
    ELSE DetEntryPlan(log.entries[i], i, log, logs, st)
         \o DetLoopPlan(i + 1, log, logs, st)

\* The streakMilestones table.
StreakMilestones ==
    <<[count |-> 3, type |-> "streak-3"], [count |-> 7, type |-> "streak-7"],
      [count |-> 14, type |-> "streak-14"], [count |-> 30, type |-> "streak-30"],
      [count |-> 50, type |-> "streak-50"]>>

RECURSIVE StreakPlanFrom(_, _)
StreakPlanFrom(i, streak) ==
    IF i > Len(StreakMilestones) THEN <<>>
    ELSE (IF streak = StreakMilestones[i].count
          THEN <<Milestone(StreakMilestones[i].type, StreakMilestones[i].count,
                           "workouts", "", 0)>>
          ELSE <<>>)
         \o StreakPlanFrom(i + 1, streak)

\* Section 3: one publish per table row whose count equals the streak.
StreakPlan(st) == StreakPlanFrom(1, st.currentStreak)

\* The publishMilestone calls sections 1 to 3 of detectAndPublishMilestones
\* make, in order, when none of them is rejected.
PublishPlan(log, logs, st) ==
    FirstWorkoutPlan(logs) \o DetLoopPlan(1, log, logs, st) \o StreakPlan(st)

\* Section 4: the distinct day numbers of the completed logs of the week.
uniqueDays(log, logs) ==
    {logs[l].dayNumber : l \in {k \in 1..Len(logs) :
        logs[k].weekNumber = log.weekNumber /\ logs[k].completedAt}}

\* uniqueDays.size >= 4
WeekComplete(log, logs) == Cardinality(uniqueDays(log, logs)) >= 4

\* ------------------------------------------------- drawn inputs (bounded)

MaxEntries == 2     \* entries of a drawn current log
MaxHist == 2        \* logs of a drawn history

SetLog(weight, reps, rpe, completed) ==
    [weight |-> weight, reps |-> reps, rpe |-> rpe, completed |-> completed]

Entry(exerciseName, skipped, sets) ==
    [exerciseName |-> exerciseName, skipped |-> skipped, sets |-> sets]

WorkoutLog(id, date, weekNumber, dayNumber, completedAt, entries) ==
    [id |-> id, date |-> date, weekNumber |-> weekNumber, dayNumber |-> dayNumber,
     completedAt |-> completedAt, entries |-> entries]

Squat == "Competition Squat"
Pulldown == "Lat Pulldown"

\* Entries of a current log: a plain top set, a heavier single after a
\* triple, an uncompleted heavier set before more reps at the old weight, a
\* skipped accessory, an accessory, an entry whose only completed set has no
\* weight, and an entry with no completed set.
CurEntryPool ==
    {Entry(Squat, FALSE, <<SetLog(300, 3, 16, TRUE)>>),
     Entry(Squat, FALSE, <<SetLog(290, 3, NULL, TRUE), SetLog(300, 1, 19, TRUE)>>),
     Entry(Squat, FALSE, <<SetLog(310, 3, NULL, FALSE), SetLog(290, 5, NULL, TRUE)>>),
     Entry(Pulldown, TRUE, <<>>),
     Entry(Pulldown, FALSE, <<SetLog(110, 8, NULL, TRUE)>>),
     Entry(Squat, FALSE, <<SetLog(NULL, 3, NULL, TRUE), SetLog(300, 3, NULL, FALSE)>>),
     Entry(Squat, FALSE, <<SetLog(300, 3, NULL, FALSE)>>)}

\* Logs of a history: two completed squat sessions, a session never
\* completed, one whose squat was skipped, one whose squat sets do not count.
HistLogPool ==
    {WorkoutLog(201, 1, 1, 1, TRUE,
                <<Entry(Squat, FALSE, <<SetLog(290, 3, NULL, TRUE)>>)>>),
     WorkoutLog(202, 2, 1, 2, TRUE,
                <<Entry(Squat, FALSE, <<SetLog(300, 1, 18, TRUE)>>)>>),
     WorkoutLog(203, 3, 1, 3, FALSE,
                <<Entry(Squat, FALSE, <<SetLog(310, 3, NULL, TRUE)>>)>>),
     WorkoutLog(204, 4, 1, 4, TRUE,
                <<Entry(Squat, TRUE, <<SetLog(310, 3, NULL, TRUE)>>),
                  Entry(Pulldown, FALSE, <<SetLog(100, 8, NULL, TRUE)>>)>>),
     WorkoutLog(205, 5, 2, 1, TRUE,
                <<Entry(Squat, FALSE, <<SetLog(310, 3, NULL, FALSE),
                                        SetLog(NULL, 5, NULL, TRUE)>>)>>)}

\* Entries of a current log for the RPE and rep scans: a squat triple at RPE
\* 8.5, and an exercise done with no added weight (weight 0).
FineEntryPool ==
    {Entry(Squat, FALSE, <<SetLog(300, 3, 17, TRUE)>>),
     Entry(Pulldown, FALSE, <<SetLog(0, 10, NULL, TRUE)>>)}

\* Logs of a history for the same scans: an older squat single at RPE 9, a
\* newer squat double at RPE 8 within 5 units of it, fewer reps with no
\* added weight, and a lighter squat double with no RPE.
FineHistPool ==
    {WorkoutLog(202, 2, 1, 2, TRUE,
                <<Entry(Squat, FALSE, <<SetLog(300, 1, 18, TRUE)>>)>>),
     WorkoutLog(206, 6, 2, 2, TRUE,
                <<Entry(Squat, FALSE, <<SetLog(305, 2, 16, TRUE)>>)>>),
     WorkoutLog(207, 7, 2, 3, TRUE,
                <<Entry(Pulldown, FALSE, <<SetLog(0, 8, NULL, TRUE)>>)>>),
     WorkoutLog(208, 8, 2, 4, TRUE,
                <<Entry(Squat, FALSE, <<SetLog(295, 2, NULL, TRUE)>>)>>)}

\* Skipped entries of a current log: a main lift by two keywords, a main
\* lift by one keyword, and two accessories.
SkipEntryPool ==
    {Entry(Squat, TRUE, <<SetLog(300, 3, NULL, TRUE)>>),
     Entry("SLDL", TRUE, <<>>),
     Entry(Pulldown, TRUE, <<>>),
     Entry("Face Pull", TRUE, <<>>)}

\* The weeks of the program.
ProgramWeeks == 16

SeqsUpTo(S, n) == UNION {[1..k -> S] : k \in 0..n}

NoRepeat(s) == \A i, j \in 1..Len(s) : i # j => s[i] # s[j]

Modes == {"dry-coach", "unhinged-spotter", "supportive-disappointed", "silent"}

\* The values the settings screen offers for maxReactionsPerWorkout.
MaxReactionsChoices == {1, 2, 3}

UserSettings(reactionsEnabled, personalityMode, taper, maxReactions, streak, last) ==
    [units |-> "lbs",
     trainingMaxes |-> [squat |-> 500, bench |-> 300, deadlift |-> 550],
     personalityMode |-> personalityMode,
     reactionsEnabled |-> reactionsEnabled,
     streaksEnabled |-> TRUE,
     maxReactionsPerWorkout |-> maxReactions,
     disableReactionsDuringTaper |-> taper,
     currentStreak |-> streak,
     lastWorkoutDate |-> last]

\* The current log of a drawn input: just completed.
CurLog(weekNumber, entries) == WorkoutLog(200, 9, weekNumber, 4, TRUE, entries)

\* Family A: every settings combination over a few logs.
\* Family B: every log and history of the pools under settings that let the
\* evaluation run.
\* Family C: one entry of the fine pool against every history of the fine
\* pool, in every order of its logs.
\* Family D: logs of skipped entries.
\* Family E: an empty log of every week of the program in every speaking mode.
DrawnInputs ==
    {[log |-> CurLog(w, es), hist |-> h,
      st |-> UserSettings(en, mode, taper, mx, streak, 8)] :
        w \in {15, 16}, es \in {<<>>} \cup {<<e>> : e \in CurEntryPool}, h \in {<<>>},
        en \in BOOLEAN, mode \in Modes, taper \in BOOLEAN,
        mx \in MaxReactionsChoices, streak \in {2, 3}}
    \cup
    {[log |-> CurLog(w, es), hist |-> h,
      st |-> UserSettings(TRUE, "dry-coach", FALSE, mx, 3, 8)] :
        w \in {15}, es \in SeqsUpTo(CurEntryPool, MaxEntries),
        h \in {s \in SeqsUpTo(HistLogPool, MaxHist) : NoRepeat(s)},
        mx \in MaxReactionsChoices}
    \cup
    {[log |-> CurLog(w, es), hist |-> h,
      st |-> UserSettings(TRUE, "dry-coach", FALSE, mx, 3, 8)] :
        w \in {15}, es \in {<<e>> : e \in FineEntryPool},
        h \in {s \in SeqsUpTo(FineHistPool, MaxHist) : NoRepeat(s)},
        mx \in {3}}
    \cup
    {[log |-> CurLog(w, es), hist |-> h,
      st |-> UserSettings(TRUE, "dry-coach", FALSE, mx, 3, 8)] :
        w \in {15}, es \in SeqsUpTo(SkipEntryPool, MaxEntries), h \in {<<>>},
        mx \in {3}}
    \cup
    {[log |-> CurLog(w, es), hist |-> h,
      st |-> UserSettings(TRUE, mode, taper, mx, 3, 8)] :
        w \in 1..ProgramWeeks, es \in {<<>>}, h \in {<<>>},
        mode \in Modes \ {"silent"}, taper \in BOOLEAN, mx \in {1}}

\* ----------------------------------------------------- the application
\* One signed-in user (user # null, the case in which milestones are
\* published).  A date 'YYYY-MM-DD' is a day number; the whole-day difference
\* of two dates is the difference of their numbers.

MaxSaves == 2       \* logger sessions opened
MaxDay == 11        \* last calendar day reached
MaxRejects == 1     \* network calls rejected
MaxDeletes == 1     \* logs deleted

\* calculateStreak with a reset to 0 instead of 1.
calculateStreakResetZero(lastWorkoutDate, todayDate, currentStreak) ==
    IF lastWorkoutDate = NULL THEN 1
    ELSE LET diffDays == todayDate - lastWorkoutDate
         IN IF diffDays = 0 THEN currentStreak
            ELSE IF diffDays <= 3 THEN currentStreak + 1
            ELSE 0

calculateStreak(lastWorkoutDate, todayDate, currentStreak) ==
    IF lastWorkoutDate = NULL THEN 1
    ELSE LET diffDays == todayDate - lastWorkoutDate
         IN IF diffDays = 0 THEN currentStreak
            ELSE IF diffDays <= 3 THEN currentStreak + 1
            ELSE 1

\* The `day` fields of STREAK_MILESTONES.
STREAK_MILESTONE_DAYS == {1, 3, 5, 7, 14, 21, 30, 50}

\* getStreakMessage: a one-element list for a reaction, the empty list for null.
getStreakMessage(streakCount, mode) ==
    IF mode = "silent" THEN <<>>
    ELSE IF streakCount \in STREAK_MILESTONE_DAYS
    THEN <<Reaction("streak", getMessageForMode("streak", mode), "STREAK", 80, 0)>>
    ELSE <<>>

\* MISSED_WORKOUT_TIERS: the hours of each tier; `key` names its messages.
MISSED_WORKOUT_TIERS ==
    <<[hoursMin |-> 2, hoursMax |-> 12, key |-> "missed-2-12"],
      [hoursMin |-> 12, hoursMax |-> 24, key |-> "missed-12-24"],
      [hoursMin |-> 24, hoursMax |-> 48, key |-> "missed-24-48"]>>

\* getMissedWorkoutMessage: a one-element list for a reaction, the empty list
\* for null.
getMissedWorkoutMessage(hoursMissed, consecutiveMisses, mode) ==
    IF mode = "silent" THEN <<>>
    ELSE IF consecutiveMisses >= 3
    THEN <<Reaction("missed-workout", getMessageForMode("consecutive-miss", mode),
                    "NUDGE", 50, 0)>>
    ELSE LET hit == {k \in 1..Len(MISSED_WORKOUT_TIERS) :
                       /\ hoursMissed >= MISSED_WORKOUT_TIERS[k].hoursMin
                       /\ hoursMissed < MISSED_WORKOUT_TIERS[k].hoursMax}
         IN IF hit = {} THEN <<>>
            ELSE <<Reaction("missed-workout",
                            getMessageForMode(MISSED_WORKOUT_TIERS[SetMin(hit)].key, mode),
                            "NUDGE", 40, 0)>>

\* The sessions the user logs: day 4 of week 1 with a squat top set of
\* 300x3, or day 3 again with no set completed.
AppSessions ==
    {[dayNumber |-> 4, entries |-> <<Entry(Squat, FALSE, <<SetLog(300, 3, 16, TRUE)>>)>>],
     [dayNumber |-> 3, entries |-> <<Entry(Squat, FALSE, <<SetLog(290, 3, NULL, FALSE)>>)>>]}

ClosedLogger ==
    [pc |-> "closed", weekNumber |-> 0, dayNumber |-> 0, entries |-> <<>>,
     isSaving |-> FALSE, workoutLogs |-> <<>>, settings |-> <<>>, log |-> <<>>,
     reactions |-> <<>>, newStreak |-> 0, today |-> 0, showReactions |-> <<>>,
     error |-> ""]

\* A new user who turned reactions off, and a user three sessions into week 1
\* (two of them logged on one day) whose first-workout milestone was published.
InitProfiles ==
    {[logs |-> <<>>, streak |-> 0, last |-> NULL, milestones |-> EmptyBag,
      reactionsEnabled |-> FALSE],
     [logs |-> <<WorkoutLog(103, 9, 1, 3, TRUE,
                            <<Entry(Squat, FALSE, <<SetLog(290, 3, NULL, TRUE)>>)>>),
                 WorkoutLog(102, 8, 1, 2, TRUE,
                            <<Entry(Squat, FALSE, <<SetLog(290, 3, NULL, TRUE)>>)>>),
                 WorkoutLog(101, 8, 1, 1, TRUE,
                            <<Entry(Squat, FALSE, <<SetLog(290, 3, NULL, TRUE)>>)>>)>>,
      streak |-> 2, last |-> 9,
      milestones |-> SetToBag({Milestone("first-workout", NULL, "", "", 0)}),
      reactionsEnabled |-> TRUE]}

EvalIdle ==
    /\ currentLog = CurLog(1, <<>>)
    /\ allLogs = <<>>
    /\ evalSettings = UserSettings(TRUE, "dry-coach", FALSE, 1, 0, NULL)
    /\ evalPc = "off"
    /\ reactions = <<>>
    /\ evalResult = <<>>
    /\ evalThrew = FALSE
    /\ detPlan = <<>>

CalcIdle ==
    /\ calcIn = [fn |-> "none"]
    /\ calcOut = 0
    /\ calcPc = "off"

\* The state of a WorkoutLogger session: `isSaving` is the component's state,
\* `rendered` the value of isSaving in the last render, which is the value
\* the handlers and the buttons of the screen hold; `calls` are the
\* handleSave calls that passed the guard; `saved` the ids of the logs
\* addWorkoutLog persisted; `streakUpdates` the updateSettings calls that
\* stored streak fields; `detections` the detectAndPublishMilestones calls
\* started; `triggers` the Save triggers so far.
LoggerSession(mounted, user, toast) ==
    [mounted |-> mounted, user |-> user, toast |-> toast,
     isSaving |-> FALSE, rendered |-> FALSE, showReactions |-> FALSE,
     calls |-> <<>>, saved |-> <<>>, streakUpdates |-> 0, detections |-> 0,
     triggers |-> 0]

SocialIdle ==
    /\ friends = [requests |-> <<>>, friendships |-> <<>>, calls |-> <<>>]
    /\ cheers = [celebrations |-> <<>>, celebrationCount |-> 0, calls |-> <<>>]

\* No WorkoutLogger is mounted.
LoggerIdle == logger = LoggerSession(FALSE, FALSE, FALSE)

SyncIdle ==
    /\ localDb = [settings |-> <<>>, logs |-> {}]
    /\ cloudDb = [settings |-> <<>>, logs |-> {}]
    /\ sync = [pc |-> "off"]

Init ==
    /\ \E prof \in InitProfiles :
        /\ settings = UserSettings(prof.reactionsEnabled, "dry-coach", FALSE, 1,
                                   prof.streak, prof.last)
        /\ workoutLogs = prof.logs
        /\ milestones = prof.milestones
    /\ today = 10
    /\ nextId = 1
    /\ saver = ClosedLogger
    /\ runs = <<>>
    /\ rejects = 0
    /\ deletes = 0
    /\ EvalIdle
    /\ CalcIdle
    /\ SyncIdle
    /\ SocialIdle
    /\ LoggerIdle

\* The clock passes midnight (UTC).  Only handleSave reads the date, when it
\* builds the log and again after addWorkoutLog, so midnight is placed right
\* before one of the two reads.
Tick ==
    /\ saver.pc \in {"open", "addWorkoutLog"}
    /\ today < MaxDay
    /\ today' = today + 1
    /\ UNCHANGED <<settings, workoutLogs, nextId, saver, runs, milestones, rejects, deletes>>
    /\ UNCHANGED evalVars
    /\ UNCHANGED auxVars

\* AppShell mounts a WorkoutLogger for a day of the program and the user
\* fills it in.
OpenLogger ==
    /\ saver.pc \in {"closed", "finished"}
    /\ nextId <= MaxSaves
    /\ \E s \in AppSessions :
         saver' = [ClosedLogger EXCEPT !.pc = "open", !.weekNumber = 1,
                                       !.dayNumber = s.dayNumber, !.entries = s.entries]
    /\ UNCHANGED <<settings, workoutLogs, today, nextId, runs, milestones, rejects, deletes>>
    /\ UNCHANGED evalVars
    /\ UNCHANGED auxVars

\* handleSave up to `await addWorkoutLog(log)`.  The call keeps the
\* workoutLogs and settings of the render it was created in.
HandleSaveStart ==
    /\ saver.pc = "open"
    /\ ~saver.isSaving
    /\ saver' = [saver EXCEPT
                   !.pc = "addWorkoutLog",
                   !.isSaving = TRUE,
                   !.workoutLogs = workoutLogs,
                   !.settings = settings,
                   !.log = WorkoutLog(nextId, today, saver.weekNumber,
                                      saver.dayNumber, TRUE, saver.entries)]
    /\ nextId' = nextId + 1
    /\ UNCHANGED <<settings, workoutLogs, today, runs, milestones, rejects, deletes>>
    /\ UNCHANGED evalVars
    /\ UNCHANGED auxVars

\* The lists `logs.sort((a, b) => b.date.localeCompare(a.date))` can give for
\* the stored logs with `log` added: the store returns equal dates in an
\* order of its own, so `log` may land anywhere among the logs of its date.
SortedWith(logs, log) ==
    {SubSeq(logs, 1, k) \o <<log>> \o SubSeq(logs, k + 1, Len(logs)) :
        k \in {j \in 0..Len(logs) :
                 /\ \A i \in 1..j : logs[i].date >= log.date
                 /\ \A i \in (j + 1)..Len(logs) : logs[i].date <= log.date}}

\* The `published` milestones and the position of a started detection run.
\* pc: "publish" (awaiting the addDoc of plan[next]), "query" (awaiting the
\* program-week getDocs), "publishWeek" (awaiting the program-week addDoc),
\* "done" (resolved), "failed" (rejected; the caller's catch logs it), in
\* which case failedIn is the pc of the rejected call.
AfterPlan(log, logs) == IF WeekComplete(log, logs) THEN "query" ELSE "done"

\* detectAndPublishMilestones up to its first await.
StartRun(log, logs, st) ==
    LET plan == PublishPlan(log, logs, st)
    IN [log |-> log, allLogs |-> logs, settings |-> st, plan |-> plan, next |-> 1,
        pc |-> IF plan # <<>> THEN "publish" ELSE AfterPlan(log, logs),
        published |-> <<>>, failedIn |-> ""]

\* How handleSave ends once the detection has been started.
HandleSaveEndAwaiting(limited) == "awaitDetection"

HandleSaveEnd(limited) == IF Len(limited) > 0 THEN "toast" ELSE "finished"

\* addWorkoutLog resolved: the log is stored and the provider's list is
\* reloaded; handleSave goes on to `await updateSettings(...)`.
AddWorkoutLogResolve ==
    /\ saver.pc = "addWorkoutLog"
    /\ workoutLogs' \in SortedWith(workoutLogs, saver.log)
    /\ LET st == saver.settings
           logs == saver.workoutLogs \o <<saver.log>>
       IN saver' = [saver EXCEPT
              !.pc = "updateSettings",
              !.reactions = IF st.reactionsEnabled /\ st.personalityMode # "silent"
                            THEN evaluateReactions(saver.log, logs, st).value
                            ELSE <<>>,
              !.today = today,
              !.newStreak = calculateStreak(st.lastWorkoutDate, today, st.currentStreak)]
    /\ UNCHANGED <<settings, today, nextId, runs, milestones, rejects, deletes>>
    /\ UNCHANGED evalVars
    /\ UNCHANGED auxVars

\* addWorkoutLog rejected: handleSave ends by that exception.
AddWorkoutLogReject ==
    /\ saver.pc = "addWorkoutLog"
    /\ rejects < MaxRejects
    /\ rejects' = rejects + 1
    /\ saver' = [saver EXCEPT !.pc = "rejected", !.error = "addWorkoutLog"]
    /\ UNCHANGED <<settings, workoutLogs, today, nextId, runs, milestones, deletes>>
    /\ UNCHANGED evalVars
    /\ UNCHANGED auxVars

\* { ...current, ...partial } with lastWorkoutDate left as it was.
MergedSettingsKeepDate(current, partial) ==
    [f \in DOMAIN current |->
        IF f \in DOMAIN partial /\ f # "lastWorkoutDate" THEN partial[f] ELSE current[f]]

\* updateSettings: updated = { ...current, ...partial, id: 'default' }.
MergedSettings(current, partial) ==
    [f \in DOMAIN current |-> IF f \in DOMAIN partial THEN partial[f] ELSE current[f]]

\* The streak reaction merged into the list by priority.
CombineReactionsSorted(streakReaction, engineReactions, maxReactions) ==
    Take(SortByPriority(streakReaction \o engineReactions), maxReactions)

\* allReactions = streakReaction ? [streakReaction, ...reactions] : reactions;
\* limited = allReactions.slice(0, settings.maxReactionsPerWorkout)
CombineReactions(streakReaction, engineReactions, maxReactions) ==
    Take(streakReaction \o engineReactions, maxReactions)

\* updateSettings resolved: the settings are stored; handleSave starts the
\* detection without awaiting it, combines the reactions and ends.
UpdateSettingsResolve ==
    /\ saver.pc = "updateSettings"
    /\ LET st == saver.settings
           updatedSettings == [st EXCEPT !.currentStreak = saver.newStreak,
                                         !.lastWorkoutDate = saver.today]
           logs == saver.workoutLogs \o <<saver.log>>
           branch == st.reactionsEnabled /\ st.personalityMode # "silent"
           streakReaction == IF st.streaksEnabled
                             THEN getStreakMessage(saver.newStreak, st.personalityMode)
                             ELSE <<>>
           limited == IF branch
                      THEN CombineReactions(streakReaction, saver.reactions,
                                            st.maxReactionsPerWorkout)
                      ELSE <<>>
       IN /\ settings' = MergedSettings(st, [currentStreak |-> saver.newStreak,
                                              lastWorkoutDate |-> saver.today])
          /\ runs' = Append(runs, StartRun(saver.log, logs, updatedSettings))
          /\ saver' = [saver EXCEPT !.pc = HandleSaveEnd(limited),
                                    !.showReactions = limited]
    /\ UNCHANGED <<workoutLogs, today, nextId, milestones, rejects, deletes>>
    /\ UNCHANGED evalVars
    /\ UNCHANGED auxVars

\* updateSettings rejected: handleSave ends by that exception.
UpdateSettingsReject ==
    /\ saver.pc = "updateSettings"
    /\ rejects < MaxRejects
    /\ rejects' = rejects + 1
    /\ saver' = [saver EXCEPT !.pc = "rejected", !.error = "updateSettings"]
    /\ UNCHANGED <<settings, workoutLogs, today, nextId, runs, milestones, deletes>>
    /\ UNCHANGED evalVars
    /\ UNCHANGED auxVars

\* The toast is dismissed, or Cancel is pressed after a failed save: onFinish.
Dismiss ==
    /\ saver.pc \in {"toast", "rejected"}
    /\ saver' = ClosedLogger
    /\ UNCHANGED <<settings, workoutLogs, today, nextId, runs, milestones, rejects, deletes>>
    /\ UNCHANGED evalVars
    /\ UNCHANGED auxVars

\* The id the user passes to deleteWorkoutLog: that of the log saved last.
DeletableIds == {nextId - 1}

\* deleteWorkoutLog(id) of the provider.
DeleteWorkoutLog ==
    /\ saver.pc \in {"closed", "finished"}
    /\ deletes < MaxDeletes
    /\ deletes' = deletes + 1
    /\ \E id \in {workoutLogs[i].id : i \in 1..Len(workoutLogs)} \cap DeletableIds :
         workoutLogs' = SelectSeq(workoutLogs, LAMBDA l : l.id # id)
    /\ UNCHANGED <<settings, today, nextId, saver, runs, milestones, rejects>>
    /\ UNCHANGED evalVars
    /\ UNCHANGED auxVars

\* The program-week milestone of a run.
WeekMilestone(run) == Milestone("program-week", run.log.weekNumber, "", "", 0)

\* The milestone whose addDoc the run awaits.
Awaited(run) == IF run.pc = "publish" THEN run.plan[run.next] ELSE WeekMilestone(run)

\* An addDoc of publishMilestone resolved: the document is in the
\* collection and the run goes on to its next await.
DetPublishResolve(r) ==
    /\ runs[r].pc \in {"publish", "publishWeek"}
    /\ LET run == runs[r]
           m == Awaited(run)
       IN /\ milestones' = milestones (+) SetToBag({m})
          /\ runs' = [runs EXCEPT ![r] =
                [run EXCEPT
                   !.published = Append(run.published, m),
                   !.next = IF run.pc = "publish" THEN run.next + 1 ELSE run.next,
                   !.pc = IF run.pc = "publishWeek" THEN "done"
                          ELSE IF run.next < Len(run.plan) THEN "publish"
                          ELSE AfterPlan(run.log, run.allLogs)]]
    /\ UNCHANGED <<settings, workoutLogs, today, nextId, saver, rejects, deletes>>
    /\ UNCHANGED evalVars
    /\ UNCHANGED auxVars

\* An addDoc rejected: the exception leaves detectAndPublishMilestones.
DetPublishReject(r) ==
    /\ runs[r].pc \in {"publish", "publishWeek"}
    /\ rejects < MaxRejects
    /\ rejects' = rejects + 1
    /\ runs' = [runs EXCEPT ![r].pc = "failed", ![r].failedIn = runs[r].pc]
    /\ UNCHANGED <<settings, workoutLogs, today, nextId, saver, milestones, deletes>>
    /\ UNCHANGED evalVars
    /\ UNCHANGED auxVars

\* existingSnap.empty for the run's (type 'program-week', value week) query.
ExistingEmpty(run, docs) ==
    ~ \E d \in BagToSet(docs) :
         d.type = "program-week" /\ d.value = run.log.weekNumber

\* The program-week getDocs resolved.
DetQueryResolve(r) ==
    /\ runs[r].pc = "query"
    /\ runs' = [runs EXCEPT ![r].pc =
                  IF ExistingEmpty(runs[r], milestones) THEN "publishWeek" ELSE "done"]
    /\ UNCHANGED <<settings, workoutLogs, today, nextId, saver, milestones, rejects, deletes>>
    /\ UNCHANGED evalVars
    /\ UNCHANGED auxVars

\* The program-week getDocs rejected.
DetQueryReject(r) ==
    /\ runs[r].pc = "query"
    /\ rejects < MaxRejects
    /\ rejects' = rejects + 1
    /\ runs' = [runs EXCEPT ![r].pc = "failed", ![r].failedIn = runs[r].pc]
    /\ UNCHANGED <<settings, workoutLogs, today, nextId, saver, milestones, deletes>>
    /\ UNCHANGED evalVars
    /\ UNCHANGED auxVars

Next ==
    \/ Tick
    \/ OpenLogger
    \/ HandleSaveStart
    \/ AddWorkoutLogResolve
    \/ AddWorkoutLogReject
    \/ UpdateSettingsResolve
    \/ UpdateSettingsReject
    \/ Dismiss
    \/ DeleteWorkoutLog
    \/ \E r \in 1..Len(runs) : DetPublishResolve(r)
    \/ \E r \in 1..Len(runs) : DetPublishReject(r)
    \/ \E r \in 1..Len(runs) : DetQueryResolve(r)
    \/ \E r \in 1..Len(runs) : DetQueryReject(r)

Spec == Init /\ [][Next]_vars

\* ------------------------------ the save flow with the settings screen

\* What the settings form holds when the user presses Save: the fields the
\* reactions and the streak message read.  The other fields of the form keep
\* the values they were loaded with.
SettingsForms ==
    {[personalityMode |-> "silent", reactionsEnabled |-> TRUE, streaksEnabled |-> FALSE,
      maxReactionsPerWorkout |-> 1],
     [personalityMode |-> "dry-coach", reactionsEnabled |-> TRUE, streaksEnabled |-> FALSE,
      maxReactionsPerWorkout |-> 2],
     [personalityMode |-> "dry-coach", reactionsEnabled |-> FALSE, streaksEnabled |-> TRUE,
      maxReactionsPerWorkout |-> 1],
     [personalityMode |-> "dry-coach", reactionsEnabled |-> TRUE, streaksEnabled |-> TRUE,
      maxReactionsPerWorkout |-> 3]}

\* Settings.handleSave: updateSettings(form).  The logger is not mounted
\* while the settings tab is shown, and the writes of one client are applied
\* in the order they were made, so the call is taken as one step.
SettingsSave ==
    /\ saver.pc \in {"closed", "finished"}
    /\ \E form \in SettingsForms : settings' = MergedSettings(settings, form)
    /\ UNCHANGED <<workoutLogs, today, nextId, saver, runs, milestones, rejects, deletes>>
    /\ UNCHANGED evalVars
    /\ UNCHANGED auxVars

\* A user back after a break: streak 4, last workout five days ago.
LapsedProfile ==
    [logs |-> <<WorkoutLog(101, 5, 1, 1, TRUE,
                           <<Entry(Squat, FALSE, <<SetLog(290, 3, NULL, TRUE)>>)>>)>>,
     streak |-> 4, last |-> 5,
     milestones |-> SetToBag({Milestone("first-workout", NULL, "", "", 0)}),
     reactionsEnabled |-> TRUE]

InitSettings ==
    /\ \E prof \in InitProfiles \cup {LapsedProfile} :
        /\ settings = UserSettings(prof.reactionsEnabled, "dry-coach", FALSE, 1,
                                   prof.streak, prof.last)
        /\ workoutLogs = prof.logs
        /\ milestones = prof.milestones
    /\ today = 10
    /\ nextId = 1
    /\ saver = ClosedLogger
    /\ runs = <<>>
    /\ rejects = 0
    /\ deletes = 0
    /\ EvalIdle
    /\ CalcIdle
    /\ SyncIdle
    /\ SocialIdle
    /\ LoggerIdle

\* Every call resolves, and the detection runs handleSave starts are left
\* pending: they write no settings and no logs.
NextSettings ==
    \/ Tick
    \/ OpenLogger
    \/ HandleSaveStart
    \/ AddWorkoutLogResolve
    \/ UpdateSettingsResolve
    \/ Dismiss
    \/ SettingsSave

SpecSettings == InitSettings /\ [][NextSettings]_vars

AppIdle ==
    /\ settings = UserSettings(TRUE, "dry-coach", FALSE, 1, 0, NULL)
    /\ workoutLogs = <<>>
    /\ today = 1
    /\ nextId = 1
    /\ saver = ClosedLogger
    /\ runs = <<>>
    /\ milestones = EmptyBag
    /\ rejects = 0
    /\ deletes = 0

\* ------------------------- evaluateReactions and the detector on drawn inputs

InitReact ==
    /\ \E in \in DrawnInputs :
        /\ currentLog = in.log
        /\ allLogs = in.hist \o <<in.log>>
        /\ evalSettings = in.st
    /\ evalPc = "input"
    /\ reactions = <<>>
    /\ evalResult = <<>>
    /\ evalThrew = FALSE
    /\ detPlan = <<>>
    /\ AppIdle
    /\ CalcIdle
    /\ SyncIdle
    /\ SocialIdle
    /\ LoggerIdle

\* reactions = evaluateReactions(log, allLogs, settings)
Evaluate ==
    /\ evalPc = "input"
    /\ LET r == evaluateReactions(currentLog, allLogs, evalSettings)
       IN /\ reactions' = r.reactions
          /\ evalResult' = r.value
          /\ evalThrew' = r.threw
    /\ evalPc' = "evaluated"
    /\ UNCHANGED <<currentLog, allLogs, evalSettings, detPlan>>
    /\ UNCHANGED appVars
    /\ UNCHANGED auxVars

\* detectAndPublishMilestones(..., log, allLogs, settings), sections 1 to 3
Detect ==
    /\ evalPc = "evaluated"
    /\ detPlan' = PublishPlan(currentLog, allLogs, evalSettings)
    /\ evalPc' = "done"
    /\ UNCHANGED <<currentLog, allLogs, evalSettings, reactions, evalResult, evalThrew>>
    /\ UNCHANGED appVars
    /\ UNCHANGED auxVars

NextReact == Evaluate \/ Detect

SpecReact == InitReact /\ [][NextReact]_vars

\* --------------------------------------- firestore.ts: syncLocalToCloud

MaxLogId == 3     \* workout log ids 1..MaxLogId in the two stores
MaxSyncs == 2     \* calls of syncLocalToCloud in one behaviour

\* A stored document: its key and where its content was written.
LocalLog(id) == [id |-> id, data |-> "local"]
CloudLog(id) == [id |-> id, data |-> "cloud"]

\* The ids of a set of workout logs (cloudLogs.map(l => l.id)).
LogIds(logs) == {l.id : l \in logs}

\* db.getAll('workoutLogs'): the logs of the object store in key order.
RECURSIVE getLocalLogs(_)
getLocalLogs(logs) ==
    IF logs = {} THEN <<>>
    ELSE LET first == CHOOSE l \in logs : \A m \in logs : l.id <= m.id
         IN <<first>> \o getLocalLogs(logs \ {first})

\* setDoc on users/{uid}/workoutLogs/{log.id}: the document is replaced.
setLogDoc(logs, log) == {l \in logs : l.id # log.id} \cup {log}

\* The loop uploads every local log whether or not the cloud has its id.
NeedsUploadAlways(log, cloudLogIds) == TRUE

\* The test of the loop of syncLocalToCloud: !cloudLogIds.has(log.id).
NeedsUpload(log, cloudLogIds) == log.id \notin cloudLogIds

\* The two stores hold any settings and any logs; a log id held by both
\* stores has different content in each.
InitSync ==
    /\ \E ls \in {<<>>, <<[id |-> "default", data |-> "local"]>>},
          cs \in {<<>>, <<[id |-> "default", data |-> "cloud"]>>},
          ll \in SUBSET (1..MaxLogId), cl \in SUBSET (1..MaxLogId) :
        /\ localDb = [settings |-> ls, logs |-> {LocalLog(i) : i \in ll}]
        /\ cloudDb = [settings |-> cs, logs |-> {CloudLog(i) : i \in cl}]
    /\ sync = [pc |-> "idle", run |-> 0, prev |-> "none",
               settingsSynced |-> FALSE, logsSynced |-> 0,
               localSettings |-> <<>>, localLogs |-> <<>>, cloudLogIds |-> {},
               i |-> 1, cloudAtStart |-> cloudDb, wrote |-> {}]
    /\ CalcIdle
    /\ EvalIdle
    /\ AppIdle
    /\ SocialIdle
    /\ LoggerIdle

SyncFrame ==
    /\ UNCHANGED <<localDb, calcIn, calcOut, calcPc, friends, cheers, logger>>
    /\ UNCHANGED evalVars
    /\ UNCHANGED appVars

\* init calls syncLocalToCloud; `cloudAtStart` and `wrote` record the cloud
\* at the call and the documents the call has written.
SyncStart ==
    /\ sync.pc \in {"idle", "returned", "failed"}
    /\ sync.run < MaxSyncs
    /\ sync' = [sync EXCEPT !.pc = "getCloudUserSettings",
                            !.run = @ + 1,
                            !.prev = IF sync.pc = "idle" THEN "none" ELSE sync.pc,
                            !.settingsSynced = FALSE, !.logsSynced = 0,
                            !.localSettings = <<>>, !.localLogs = <<>>,
                            !.cloudLogIds = {}, !.i = 1,
                            !.cloudAtStart = cloudDb, !.wrote = {}]
    /\ UNCHANGED cloudDb
    /\ SyncFrame

\* await getCloudUserSettings(uid); if (!cloudSettings)
GetCloudUserSettings ==
    /\ sync.pc = "getCloudUserSettings"
    /\ sync' = [sync EXCEPT !.pc = IF cloudDb.settings = <<>>
                                   THEN "getLocalSettings" ELSE "getLocalLogs"]
    /\ UNCHANGED cloudDb
    /\ SyncFrame

\* await getLocalSettings(); if (localSettings)
GetLocalSettings ==
    /\ sync.pc = "getLocalSettings"
    /\ sync' = [sync EXCEPT !.localSettings = localDb.settings,
                            !.pc = IF localDb.settings # <<>>
                                   THEN "saveCloudUserSettings" ELSE "getLocalLogs"]
    /\ UNCHANGED cloudDb
    /\ SyncFrame

\* await saveCloudUserSettings(uid, localSettings); settingsSynced = true
SaveCloudUserSettings ==
    /\ sync.pc = "saveCloudUserSettings"
    /\ cloudDb' = [cloudDb EXCEPT !.settings =
                       <<[sync.localSettings[1] EXCEPT !.id = "default"]>>]
    /\ sync' = [sync EXCEPT !.settingsSynced = TRUE,
                            !.wrote = @ \cup {0},
                            !.pc = "getLocalLogs"]
    /\ SyncFrame

\* await getLocalLogs()
GetLocalLogs ==
    /\ sync.pc = "getLocalLogs"
    /\ sync' = [sync EXCEPT !.localLogs = getLocalLogs(localDb.logs),
                            !.pc = "getAllCloudWorkoutLogs"]
    /\ UNCHANGED cloudDb
    /\ SyncFrame

\* await getAllCloudWorkoutLogs(uid); cloudLogIds = new Set(...)
GetAllCloudWorkoutLogs ==
    /\ sync.pc = "getAllCloudWorkoutLogs"
    /\ sync' = [sync EXCEPT !.cloudLogIds = LogIds(cloudDb.logs),
                            !.i = 1,
                            !.pc = "loop"]
    /\ UNCHANGED cloudDb
    /\ SyncFrame

\* One turn of the loop for a log the cloud has: nothing is written.
LoopSkip ==
    /\ sync.pc = "loop"
    /\ sync.i <= Len(sync.localLogs)
    /\ ~NeedsUpload(sync.localLogs[sync.i], sync.cloudLogIds)
    /\ sync' = [sync EXCEPT !.i = @ + 1]
    /\ UNCHANGED cloudDb
    /\ SyncFrame

\* One turn of the loop for a log the cloud lacks:
\* await saveCloudWorkoutLog(uid, log); logsSynced++
SaveCloudWorkoutLog ==
    /\ sync.pc = "loop"
    /\ sync.i <= Len(sync.localLogs)
    /\ NeedsUpload(sync.localLogs[sync.i], sync.cloudLogIds)
    /\ cloudDb' = [cloudDb EXCEPT !.logs = setLogDoc(@, sync.localLogs[sync.i])]
    /\ sync' = [sync EXCEPT !.logsSynced = @ + 1,
                            !.wrote = @ \cup {sync.localLogs[sync.i].id},
                            !.i = @ + 1]
    /\ SyncFrame

\* return { settingsSynced, logsSynced }
SyncReturn ==
    /\ sync.pc = "loop"
    /\ sync.i > Len(sync.localLogs)
    /\ sync' = [sync EXCEPT !.pc = "returned"]
    /\ UNCHANGED cloudDb
    /\ SyncFrame

\* A Firestore or IndexedDB call rejects: syncLocalToCloud throws at the
\* await and init catches it; what was written stays written.
SyncReject ==
    /\ \/ sync.pc \in {"getCloudUserSettings", "getLocalSettings",
                        "saveCloudUserSettings", "getLocalLogs",
                        "getAllCloudWorkoutLogs"}
       \/ /\ sync.pc = "loop"
          /\ sync.i <= Len(sync.localLogs)
          /\ NeedsUpload(sync.localLogs[sync.i], sync.cloudLogIds)
    /\ sync' = [sync EXCEPT !.pc = "failed"]
    /\ UNCHANGED cloudDb
    /\ SyncFrame

NextSync ==
    \/ SyncStart
    \/ GetCloudUserSettings
    \/ GetLocalSettings
    \/ SaveCloudUserSettings
    \/ GetLocalLogs
    \/ GetAllCloudWorkoutLogs
    \/ LoopSkip
    \/ SaveCloudWorkoutLog
    \/ SyncReturn
    \/ SyncReject

SpecSync == InitSync /\ [][NextSync]_vars

\* ------------------------------------------- friends.ts: friend requests
\* The collections 'friendRequests' and 'friendships' are shared by all
\* users; a document id is the position of the document in the sequence.  A
\* call of a function of friends.ts is a record of `friends.calls`; its `pc`
\* is the await it stands at, "returned" or "threw".  `created`, `alone`,
\* `pendingAtStart`, `friendsAtStart`, `statusAtStart` and `netRejected`
\* record what the call did and met; the functions do not read them.

MaxCalls == 3     \* calls of the functions of friends.ts in one behaviour

Users == {"u1", "u2"}

\* checkExistingRequest: a pending request between the two, either direction.
checkExistingRequest(requests, uid1, uid2) ==
    \E k \in 1..Len(requests) :
        /\ requests[k].status = "pending"
        /\ \/ (requests[k].from = uid1 /\ requests[k].to = uid2)
           \/ (requests[k].from = uid2 /\ requests[k].to = uid1)

\* checkExistingFriendship: a friendship document whose users hold both.
checkExistingFriendship(friendships, uid1, uid2) ==
    \E k \in 1..Len(friendships) :
        /\ ~friendships[k].deleted
        /\ uid1 \in Range(friendships[k].users)
        /\ uid2 \in Range(friendships[k].users)

InFlight(call) == call.pc \notin {"returned", "threw"}

FriendCall(op, pc, from, to, id) ==
    [op |-> op, pc |-> pc, from |-> from, to |-> to, id |-> id, created |-> 0,
     alone |-> \A k \in 1..Len(friends.calls) : ~InFlight(friends.calls[k]),
     pendingAtStart |-> from # "" /\ checkExistingRequest(friends.requests, from, to),
     friendsAtStart |-> from # "" /\ checkExistingFriendship(friends.friendships, from, to),
     statusAtStart |-> IF op = "accept" THEN friends.requests[id].status ELSE "",
     netRejected |-> FALSE]

\* A call begins while the calls in flight are still running.
BeginFriendCall(call) ==
    /\ Len(friends.calls) < MaxCalls
    /\ friends' = [friends EXCEPT !.calls =
            [k \in 1..Len(@) + 1 |->
                IF k = Len(@) + 1 THEN call
                ELSE IF InFlight(@[k]) THEN [@[k] EXCEPT !.alone = FALSE] ELSE @[k]]]

FriendsFrame ==
    /\ UNCHANGED <<cheers, logger, calcIn, calcOut, calcPc, localDb, cloudDb, sync>>
    /\ UNCHANGED evalVars
    /\ UNCHANGED appVars

\* sendFriendRequest is called; `if (fromUid === toUid) throw`.
SendFriendRequestStart ==
    /\ \E from \in Users, to \in Users :
          BeginFriendCall(FriendCall("send",
                                     IF from = to THEN "threw" ELSE "checkExistingRequest",
                                     from, to, 0))
    /\ FriendsFrame

\* await checkExistingRequest(fromUid, toUid); if (existingRequest) throw
CheckExistingRequest ==
    /\ \E c \in 1..Len(friends.calls) :
          /\ friends.calls[c].pc = "checkExistingRequest"
          /\ friends' = [friends EXCEPT !.calls[c].pc =
                 IF checkExistingRequest(friends.requests, friends.calls[c].from,
                                         friends.calls[c].to)
                 THEN "threw" ELSE "checkExistingFriendship"]
    /\ FriendsFrame

\* await checkExistingFriendship(fromUid, toUid); if (existingFriendship) throw
CheckExistingFriendship ==
    /\ \E c \in 1..Len(friends.calls) :
          /\ friends.calls[c].pc = "checkExistingFriendship"
          /\ friends' = [friends EXCEPT !.calls[c].pc =
                 IF checkExistingFriendship(friends.friendships, friends.calls[c].from,
                                            friends.calls[c].to)
                 THEN "threw" ELSE "addRequest"]
    /\ FriendsFrame

\* await addDoc(collection(firestore, 'friendRequests'), request)
AddRequestDoc ==
    /\ \E c \in 1..Len(friends.calls) :
          /\ friends.calls[c].pc = "addRequest"
          /\ friends' = [friends EXCEPT
                 !.requests = Append(@, [from |-> friends.calls[c].from,
                                         to |-> friends.calls[c].to,
                                         status |-> "pending"]),
                 !.calls[c].created = Len(friends.requests) + 1,
                 !.calls[c].pc = "returned"]
    /\ FriendsFrame

\* handleAccept(requestId) for a request of the list the screen shows.
AcceptFriendRequestStart ==
    /\ \E id \in 1..Len(friends.requests) :
          BeginFriendCall(FriendCall("accept", "getRequest", "", "", id))
    /\ FriendsFrame

\* await getDoc(reqRef); request = reqSnap.data()
AcceptGetRequest ==
    /\ \E c \in 1..Len(friends.calls) :
          /\ friends.calls[c].pc = "getRequest"
          /\ friends' = [friends EXCEPT
                 !.calls[c].from = friends.requests[friends.calls[c].id].from,
                 !.calls[c].to = friends.requests[friends.calls[c].id].to,
                 !.calls[c].pc = "addFriendship"]
    /\ FriendsFrame

\* await addDoc(collection(firestore, 'friendships'), friendship)
AcceptAddFriendship ==
    /\ \E c \in 1..Len(friends.calls) :
          /\ friends.calls[c].pc = "addFriendship"
          /\ friends' = [friends EXCEPT
                 !.friendships = Append(@, [users |-> <<friends.calls[c].from,
                                                       friends.calls[c].to>>,
                                            deleted |-> FALSE]),
                 !.calls[c].created = Len(friends.friendships) + 1,
                 !.calls[c].pc = "acceptUpdate"]
    /\ FriendsFrame

\* await updateDoc(reqRef, { status: 'accepted' })
AcceptUpdateStatus ==
    /\ \E c \in 1..Len(friends.calls) :
          /\ friends.calls[c].pc = "acceptUpdate"
          /\ friends' = [friends EXCEPT
                 !.requests[friends.calls[c].id].status = "accepted",
                 !.calls[c].pc = "returned"]
    /\ FriendsFrame

\* handleReject(requestId)
RejectFriendRequestStart ==
    /\ \E id \in 1..Len(friends.requests) :
          BeginFriendCall(FriendCall("reject", "rejectUpdate", "", "", id))
    /\ FriendsFrame

\* await updateDoc(reqRef, { status: 'rejected' })
RejectUpdateStatus ==
    /\ \E c \in 1..Len(friends.calls) :
          /\ friends.calls[c].pc = "rejectUpdate"
          /\ friends' = [friends EXCEPT
                 !.requests[friends.calls[c].id].status = "rejected",
                 !.calls[c].pc = "returned"]
    /\ FriendsFrame

\* handleRemoveFriend(friendshipId)
RemoveFriendStart ==
    /\ \E id \in 1..Len(friends.friendships) :
          BeginFriendCall(FriendCall("remove", "deleteFriendship", "", "", id))
    /\ FriendsFrame

\* await deleteDoc(doc(firestore, 'friendships', friendshipId))
RemoveDeleteDoc ==
    /\ \E c \in 1..Len(friends.calls) :
          /\ friends.calls[c].pc = "deleteFriendship"
          /\ friends' = [friends EXCEPT
                 !.friendships[friends.calls[c].id].deleted = TRUE,
                 !.calls[c].pc = "returned"]
    /\ FriendsFrame

\* The Firestore call a function awaits rejects: the function throws there.
FriendCallReject ==
    /\ \E c \in 1..Len(friends.calls) :
          /\ InFlight(friends.calls[c])
          /\ friends' = [friends EXCEPT !.calls[c].pc = "threw",
                                        !.calls[c].netRejected = TRUE]
    /\ FriendsFrame

InitFriends ==
    /\ SocialIdle
    /\ LoggerIdle
    /\ SyncIdle
    /\ CalcIdle
    /\ EvalIdle
    /\ AppIdle

NextFriends ==
    \/ SendFriendRequestStart
    \/ CheckExistingRequest
    \/ CheckExistingFriendship
    \/ AddRequestDoc
    \/ AcceptFriendRequestStart
    \/ AcceptGetRequest
    \/ AcceptAddFriendship
    \/ AcceptUpdateStatus
    \/ RejectFriendRequestStart
    \/ RejectUpdateStatus
    \/ RemoveFriendStart
    \/ RemoveDeleteDoc
    \/ FriendCallReject

SpecFriends == InitFriends /\ [][NextFriends]_vars

\* --------------------------------------------- friends.ts: celebrations
\* One milestone document and the 'celebrations' collection; a call of
\* celebrateMilestone is a record of `cheers.calls`.

CheersFrame ==
    /\ UNCHANGED <<friends, logger, calcIn, calcOut, calcPc, localDb, cloudDb, sync>>
    /\ UNCHANGED evalVars
    /\ UNCHANGED appVars

\* handleCelebrate calls celebrateMilestone: celebratedIds, updated only after
\* the call has returned, does not stop a tap made while a call is running,
\* nor a tap on another device.
CelebrateStart ==
    /\ Len(cheers.calls) < MaxCalls
    /\ \E fromUid \in Users :
          cheers' = [cheers EXCEPT !.calls =
                        Append(@, [fromUid |-> fromUid, pc |-> "checkCelebrated"])]
    /\ CheersFrame

\* await getDocs(existing); if (!snap.empty) return
CheckCelebrated ==
    /\ \E c \in 1..Len(cheers.calls) :
          /\ cheers.calls[c].pc = "checkCelebrated"
          /\ cheers' = [cheers EXCEPT !.calls[c].pc =
                 IF \E k \in 1..Len(cheers.celebrations) :
                       /\ cheers.celebrations[k].milestoneId = "m1"
                       /\ cheers.celebrations[k].fromUid = cheers.calls[c].fromUid
                 THEN "returned" ELSE "addCelebration"]
    /\ CheersFrame

\* await addDoc(collection(firestore, 'celebrations'), celebration)
AddCelebration ==
    /\ \E c \in 1..Len(cheers.calls) :
          /\ cheers.calls[c].pc = "addCelebration"
          /\ cheers' = [cheers EXCEPT
                 !.celebrations = Append(@, [milestoneId |-> "m1",
                                             fromUid |-> cheers.calls[c].fromUid]),
                 !.calls[c].pc = "incrementCount"]
    /\ CheersFrame

\* await updateDoc(milestoneRef, { celebrationCount: increment(1) })
IncrementCount ==
    /\ \E c \in 1..Len(cheers.calls) :
          /\ cheers.calls[c].pc = "incrementCount"
          /\ cheers' = [cheers EXCEPT !.celebrationCount = @ + 1,
                                      !.calls[c].pc = "returned"]
    /\ CheersFrame

\* The Firestore call celebrateMilestone awaits rejects.
CelebrateReject ==
    /\ \E c \in 1..Len(cheers.calls) :
          /\ cheers.calls[c].pc \in {"checkCelebrated", "addCelebration", "incrementCount"}
          /\ cheers' = [cheers EXCEPT !.calls[c].pc = "threw"]
    /\ CheersFrame

NextCheers ==
    \/ CelebrateStart
    \/ CheckCelebrated
    \/ AddCelebration
    \/ IncrementCount
    \/ CelebrateReject

SpecCheers == InitFriends /\ [][NextCheers]_vars

\* ------------------------ WorkoutLogger: the Save triggers of one session
\* One mounted WorkoutLogger.  handleSave is a closure of the render that
\* created it: its `isSaving` is the value of that render, and
\* setIsSaving(true) reaches the handlers only with the next render.

MaxTriggers == 3  \* Save triggers in one session

LoggerFrame ==
    /\ UNCHANGED <<friends, cheers, calcIn, calcOut, calcPc, localDb, cloudDb, sync>>
    /\ UNCHANGED evalVars
    /\ UNCHANGED appVars

\* A Save trigger: the header button (onClick={handleSave}) or the Complete
\* Workout button (onClick={handleSave} disabled={isSaving}).  handleSave:
\* if (isSaving) return; setIsSaving(true); the log gets a fresh uuid and
\* the call runs up to `await addWorkoutLog(log)`.
TriggerSave ==
    /\ logger.mounted
    /\ logger.triggers < MaxTriggers
    /\ \E button \in {"header", "complete"} :
          /\ button = "complete" => ~logger.rendered
          /\ logger' =
                IF logger.rendered
                THEN [logger EXCEPT !.triggers = @ + 1]
                ELSE [logger EXCEPT
                        !.triggers = @ + 1,
                        !.isSaving = TRUE,
                        !.calls = Append(@, [pc |-> "addWorkoutLog",
                                             id |-> Len(logger.calls) + 1,
                                             stale |-> logger.isSaving])]
    /\ LoggerFrame

\* React renders the component again: the handlers and the buttons now hold
\* the current isSaving.
Rerender ==
    /\ logger.mounted
    /\ logger.rendered # logger.isSaving
    /\ logger' = [logger EXCEPT !.rendered = logger.isSaving]
    /\ LoggerFrame

\* await addWorkoutLog(log) resolved: the log is persisted; handleSave goes
\* on to `await updateSettings({ currentStreak, lastWorkoutDate })` (either
\* branch).
LoggerAddWorkoutLogResolve ==
    /\ \E c \in 1..Len(logger.calls) :
          /\ logger.calls[c].pc = "addWorkoutLog"
          /\ logger' = [logger EXCEPT
                 !.saved = Append(@, logger.calls[c].id),
                 !.calls[c].pc = "updateSettings"]
    /\ LoggerFrame

\* await updateSettings(...) resolved: the streak fields are stored;
\* if (user) detectAndPublishMilestones(...) is started and not awaited;
\* then either the reactions are shown (the toast calls onFinish when
\* dismissed) or onFinish() is called and the parent unmounts the logger.
LoggerUpdateSettingsResolve ==
    /\ \E c \in 1..Len(logger.calls) :
          /\ logger.calls[c].pc = "updateSettings"
          /\ logger' = [logger EXCEPT
                 !.streakUpdates = @ + 1,
                 !.detections = IF logger.user THEN @ + 1 ELSE @,
                 !.showReactions = @ \/ (logger.toast /\ logger.mounted),
                 !.mounted = @ /\ logger.toast,
                 !.calls[c].pc = "returned"]
    /\ LoggerFrame

\* addWorkoutLog or updateSettings rejects: handleSave has no catch, the
\* call ends there and isSaving stays true.
LoggerSaveReject ==
    /\ \E c \in 1..Len(logger.calls) :
          /\ logger.calls[c].pc \in {"addWorkoutLog", "updateSettings"}
          /\ logger' = [logger EXCEPT !.calls[c].pc = "threw"]
    /\ LoggerFrame

\* ReactionToast onDismiss: setShowReactions([]); onFinish()
LoggerDismiss ==
    /\ logger.mounted
    /\ logger.showReactions
    /\ logger' = [logger EXCEPT !.showReactions = FALSE, !.mounted = FALSE]
    /\ LoggerFrame

InitLogger ==
    /\ \E user \in BOOLEAN, toast \in BOOLEAN :
          logger = LoggerSession(TRUE, user, toast)
    /\ friends = [requests |-> <<>>, friendships |-> <<>>, calls |-> <<>>]
    /\ cheers = [celebrations |-> <<>>, celebrationCount |-> 0, calls |-> <<>>]
    /\ SyncIdle
    /\ CalcIdle
    /\ EvalIdle
    /\ AppIdle

NextLogger ==
    \/ TriggerSave
    \/ Rerender
    \/ LoggerAddWorkoutLogResolve
    \/ LoggerUpdateSettingsResolve
    \/ LoggerSaveReject
    \/ LoggerDismiss

SpecLogger == InitLogger /\ [][NextLogger]_vars

\* ------------- the functions of calculations.ts and calculateStreak on inputs

MaxCalcDay == 10    \* dates 1..MaxCalcDay handed to calculateStreak
MaxStreak == 5      \* currentStreak handed to calculateStreak
MaxValue == 12      \* |value| handed to roundToIncrement
MaxIncrement == 5   \* |increment| handed to roundToIncrement
MaxReps == 6
MaxStreakCount == 8 \* streakCount 0..MaxStreakCount handed to getStreakMessage
MaxHours == 49      \* hoursMissed 0..MaxHours handed to getMissedWorkoutMessage
MaxMisses == 4      \* consecutiveMisses 0..MaxMisses        \* reps handed to estimateE1RM

\* Dates, with null.
CalcDates == 1..MaxCalcDay

StreakInputs ==
    {[fn |-> "calculateStreak", lastWorkoutDate |-> l, today |-> d, currentStreak |-> s] :
        l \in CalcDates \cup {NULL}, d \in CalcDates, s \in 0..MaxStreak}

RoundInputs ==
    {[fn |-> "roundToIncrement", value |-> v, increment |-> i] :
        v \in (-MaxValue)..MaxValue, i \in (-MaxIncrement)..MaxIncrement}

E1RMInputs ==
    {[fn |-> "estimateE1RM", weight |-> w, reps |-> r] :
        w \in {0, 100, 225}, r \in (-1)..MaxReps}

\* Training maxes in pounds with the percents and increments of the program;
\* for 'kg' the maxes whose converted value fits the fixed-point unit.
LoadInputs ==
    {[fn |-> "computeLoad", trainingMaxLbs |-> tm, percent100 |-> p,
      roundingIncrement10 |-> inc, displayUnits |-> "lbs"] :
        tm \in {315, 225, 405}, p \in {67, 75, 100}, inc \in {0, 25, 50}}
    \cup
    {[fn |-> "computeLoad", trainingMaxLbs |-> tm, percent100 |-> p,
      roundingIncrement10 |-> inc, displayUnits |-> "kg"] :
        tm \in {20, 45}, p \in {50, 100}, inc \in {0, 25, 50}}

\* Streak counts up to the bound, and the later milestone days with their
\* neighbours.
StreakMessageInputs ==
    {[fn |-> "getStreakMessage", streakCount |-> n, mode |-> mode] :
        n \in (0..MaxStreakCount) \cup {13, 14, 15, 21, 30, 49, 50, 51}, mode \in Modes}

MissedWorkoutInputs ==
    {[fn |-> "getMissedWorkoutMessage", hoursMissed |-> h,
      consecutiveMisses |-> c, mode |-> mode] :
        h \in 0..MaxHours, c \in 0..MaxMisses, mode \in Modes}

InitCalc ==
    /\ calcIn \in StreakInputs \cup RoundInputs \cup E1RMInputs \cup LoadInputs
                  \cup StreakMessageInputs \cup MissedWorkoutInputs
    /\ calcOut = 0
    /\ calcPc = "input"
    /\ EvalIdle
    /\ AppIdle
    /\ SyncIdle
    /\ SocialIdle
    /\ LoggerIdle

CalcDone ==
    /\ calcPc' = "done"
    /\ UNCHANGED <<calcIn, localDb, cloudDb, sync, friends, cheers, logger>>
    /\ UNCHANGED evalVars
    /\ UNCHANGED appVars

CallCalculateStreak ==
    /\ calcPc = "input" /\ calcIn.fn = "calculateStreak"
    /\ calcOut' = calculateStreak(calcIn.lastWorkoutDate, calcIn.today, calcIn.currentStreak)
    /\ CalcDone

CallRoundToIncrement ==
    /\ calcPc = "input" /\ calcIn.fn = "roundToIncrement"
    /\ calcOut' = roundToIncrement(calcIn.value, calcIn.increment)
    /\ CalcDone

CallEstimateE1RM ==
    /\ calcPc = "input" /\ calcIn.fn = "estimateE1RM"
    /\ calcOut' = estimateE1RM30(calcIn.weight, calcIn.reps)
    /\ CalcDone

CallComputeLoad ==
    /\ calcPc = "input" /\ calcIn.fn = "computeLoad"
    /\ calcOut' = computeLoad(calcIn.trainingMaxLbs, calcIn.percent100,
                              calcIn.roundingIncrement10, calcIn.displayUnits)
    /\ CalcDone

CallGetStreakMessage ==
    /\ calcPc = "input" /\ calcIn.fn = "getStreakMessage"
    /\ calcOut' = getStreakMessage(calcIn.streakCount, calcIn.mode)
    /\ CalcDone

CallGetMissedWorkoutMessage ==
    /\ calcPc = "input" /\ calcIn.fn = "getMissedWorkoutMessage"
    /\ calcOut' = getMissedWorkoutMessage(calcIn.hoursMissed, calcIn.consecutiveMisses,
                                          calcIn.mode)
    /\ CalcDone

NextCalc ==
    \/ CallCalculateStreak
    \/ CallRoundToIncrement
    \/ CallEstimateE1RM
    \/ CallComputeLoad
    \/ CallGetStreakMessage
    \/ CallGetMissedWorkoutMessage

SpecCalc == InitCalc /\ [][NextCalc]_vars

\* =================================================================== claims

\* The evaluation of the drawn input has run to its return statement.
Evaluated == evalPc \in {"evaluated", "done"} /\ ~evalThrew

\* The condition under which the specification says the engine is silent.
Gate ==
    \/ ~evalSettings.reactionsEnabled
    \/ evalSettings.personalityMode = "silent"
    \/ (evalSettings.disableReactionsDuringTaper /\ currentLog.weekNumber = 16)

\* The position at which a reaction was pushed.
PushIndex(r) == CHOOSE i \in 1..Len(reactions) : reactions[i] = r

\* a is ranked before b: higher priority, or the same priority and pushed first.
RankedBefore(a, b) ==
    \/ a.priority > b.priority
    \/ (a.priority = b.priority /\ PushIndex(a) < PushIndex(b))

\* C1: when evaluateReactions does not short-circuit, the returned list holds
\* min(maxReactionsPerWorkout, number emitted) of the emitted reactions, in
\* priority order with equal priorities in emission order, and every emitted
\* reaction left out ranks behind every returned one.
C1_SortedAndTruncated ==
    (Evaluated /\ ~Gate) =>
        LET n == evalSettings.maxReactionsPerWorkout IN
        /\ Len(evalResult) <= n
        /\ Len(evalResult) = (IF Len(reactions) < n THEN Len(reactions) ELSE n)
        /\ Range(evalResult) \subseteq Range(reactions)
        /\ \A i, j \in 1..Len(evalResult) :
              i < j => RankedBefore(evalResult[i], evalResult[j])
        /\ \A r \in Range(reactions) \ Range(evalResult) :
              \A o \in Range(evalResult) : RankedBefore(o, r)

\* maxReactionsPerWorkout = 1, a weight PR and a phase message emitted, only
\* the weight PR returned.
C1_Witness ==
    /\ Evaluated /\ ~Gate
    /\ evalSettings.maxReactionsPerWorkout = 1
    /\ \E r \in Range(reactions) : r.triggerType = "pr-weight"
    /\ \E r \in Range(reactions) : r.triggerType = "phase-message"
    /\ Len(evalResult) = 1 /\ evalResult[1].triggerType = "pr-weight"

\* C2: evaluateReactions returns the empty list whenever reactions are
\* disabled, the mode is 'silent', or taper muting is on and the week is 16;
\* in every other case the list is not empty.
C2_ShortCircuit ==
    Evaluated => (Gate <=> evalResult = <<>>)

\* Taper muting on in week 16 silences a log that has sets.
C2_Witness ==
    /\ Evaluated
    /\ evalSettings.reactionsEnabled /\ evalSettings.personalityMode # "silent"
    /\ evalSettings.disableReactionsDuringTaper /\ currentLog.weekNumber = 16
    /\ currentLog.entries # <<>>
    /\ evalResult = <<>>

\* No set of the current log is completed.
ZeroCompletedSets ==
    \A i \in 1..Len(currentLog.entries) :
        \A s \in Range(currentLog.entries[i].sets) : ~s.completed

\* C3 as stated: for a log with zero completed sets evaluateReactions returns
\* the empty list.
C3_Original ==
    (evalPc \in {"evaluated", "done"} /\ ZeroCompletedSets) =>
        (~evalThrew /\ evalResult = <<>>)

\* C3 (amended): for a log with zero completed sets evaluateReactions does
\* not throw and returns no reaction of any entry: the list holds only
\* skipped-accessories and phase-message reactions, and it is empty exactly
\* when the engine short-circuits.
C3_NoEntryReaction ==
    (evalPc \in {"evaluated", "done"} /\ ZeroCompletedSets) =>
        /\ ~evalThrew
        /\ \A r \in Range(evalResult) :
              r.triggerType \in {"skipped-accessories", "phase-message"} /\ r.entry = 0
        /\ (evalResult = <<>>) <=> Gate

\* An entry with sets, none completed, and the phase message returned.
C3_Witness ==
    /\ Evaluated /\ ZeroCompletedSets
    /\ \E i \in 1..Len(currentLog.entries) : currentLog.entries[i].sets # <<>>
    /\ Len(evalResult) = 1 /\ evalResult[1].triggerType = "phase-message"

\* The weights of the completed sets of entry i of the current log.
SessionWeights(i) ==
    {s.weight : s \in {x \in Range(currentLog.entries[i].sets) :
                         x.completed /\ x.weight # NULL}}

\* The sets logged for the exercise of entry i in non-skipped entries of the
\* other logs that have completedAt set.
PriorSetsOf(i) ==
    UNION {UNION {Range(allLogs[l].entries[e].sets) :
                    e \in {k \in 1..Len(allLogs[l].entries) :
                             /\ allLogs[l].entries[k].exerciseName
                                  = currentLog.entries[i].exerciseName
                             /\ ~allLogs[l].entries[k].skipped}} :
             l \in {k \in 1..Len(allLogs) :
                      allLogs[k].id # currentLog.id /\ allLogs[k].completedAt}}

PriorWeights(i) ==
    {s.weight : s \in {x \in PriorSetsOf(i) : x.completed /\ x.weight # NULL}}

\* Entry i is not skipped and its best completed weight is above every
\* prior completed weight, of which there is one.
QualifiesWeightPR(i) ==
    /\ ~currentLog.entries[i].skipped
    /\ PriorWeights(i) # {}
    /\ \E w \in SessionWeights(i) : \A p \in PriorWeights(i) : w > p

\* The positions of `reactions` holding a reaction of the type for entry i.
Pushed(triggerType, i) ==
    {k \in 1..Len(reactions) :
        reactions[k].triggerType = triggerType /\ reactions[k].entry = i}

\* C4: before truncation there is one pr-weight reaction, of priority 100,
\* for each entry that qualifies and none for any other entry, so k
\* qualifying entries give k pr-weight reactions.
C4_WeightPRPerEntry ==
    (Evaluated /\ ~Gate) =>
        /\ \A i \in 1..Len(currentLog.entries) :
              Cardinality(Pushed("pr-weight", i)) = (IF QualifiesWeightPR(i) THEN 1 ELSE 0)
        /\ \A k \in 1..Len(reactions) :
              reactions[k].triggerType = "pr-weight" =>
                 /\ reactions[k].priority = 100
                 /\ reactions[k].entry \in 1..Len(currentLog.entries)

\* Two entries of one workout both beat the prior best: two pr-weight
\* reactions before truncation, one returned.
C4_Witness ==
    /\ Evaluated /\ ~Gate
    /\ Len(currentLog.entries) = 2
    /\ Pushed("pr-weight", 1) # {} /\ Pushed("pr-weight", 2) # {}
    /\ evalSettings.maxReactionsPerWorkout = 1
    /\ Len(evalResult) = 1

\* The detector's publish calls of the type for entry i.
Planned(type, i) ==
    {k \in 1..Len(detPlan) : detPlan[k].type = type /\ detPlan[k].entry = i}

C6_Original ==
    \A r \in 1..Len(runs) :
        (runs[r].pc = "failed" /\ runs[r].failedIn = "publish") =>
            \A k \in (1..Len(runs[r].plan)) \ {runs[r].next} :
                \E j \in 1..Len(runs[r].published) :
                    runs[r].published[j] = runs[r].plan[k]

\* The step starts a detection run.
RunStarted == Len(runs') = Len(runs) + 1

\* The step is the rejection of a call of a detection run.
RunFailed == \E r \in 1..Len(runs) : runs[r].pc # "failed" /\ runs'[r].pc = "failed"

\* C7: handleSave starts the detection only after the log is stored, ends
\* (toast shown or onFinish called) in the step that starts it, with the run
\* still awaiting its first call unless it had nothing to do; a rejection
\* inside a run changes nothing of the save flow, and handleSave is only ever
\* rejected by addWorkoutLog or updateSettings.
C7_SaveIndependentOfDetection ==
    [][/\ RunStarted =>
            /\ \E i \in 1..Len(workoutLogs) :
                  workoutLogs[i].id = runs'[Len(runs')].log.id
            /\ saver'.pc \in {"toast", "finished"}
            /\ runs'[Len(runs')].pc \in {"publish", "query", "done"}
       /\ RunFailed => (saver' = saver /\ workoutLogs' = workoutLogs /\ settings' = settings)
       /\ saver'.pc = "rejected" => saver'.error \in {"addWorkoutLog", "updateSettings"}
      ]_vars

\* A save has reached its end and the detection it started has failed.
C7_Witness ==
    /\ saver.pc \in {"toast", "finished"}
    /\ \E r \in 1..Len(runs) :
         /\ runs[r].log.id = saver.log.id
         /\ runs[r].pc = "failed"
    /\ \E i \in 1..Len(workoutLogs) : workoutLogs[i].id = saver.log.id

\* The number of milestones of a type and value in the collection.
TypeValueCount(type, value) ==
    LET same == {d \in BagToSet(milestones) : d.type = type /\ d.value = value}
    IN BagCardinality([d \in same |-> milestones[d]])

StreakTypes == {StreakMilestones[i].type : i \in 1..Len(StreakMilestones)}

\* C8 as stated: a run publishes streak-N only with currentStreak = N, and
\* no streak-N milestone is published twice (within the saves of the model the
\* streak reaches a value of the table at most once).
C8_Original ==
    /\ \A r \in 1..Len(runs) : \A j \in 1..Len(runs[r].published) :
          runs[r].published[j].type \in StreakTypes =>
             runs[r].published[j].value = runs[r].settings.currentStreak
    /\ \A i \in 1..Len(StreakMilestones) :
          TypeValueCount(StreakMilestones[i].type, StreakMilestones[i].count) <= 1

\* C9 as stated: no two milestones of the user have the same type and value.
C9_Original ==
    \A d \in BagToSet(milestones) : TypeValueCount(d.type, d.value) = 1

\* C10 as stated: a run publishes program-week only for a week with four
\* distinct completed days, and no week has two program-week milestones.
C10_Original ==
    /\ \A r \in 1..Len(runs) :
          (\E j \in 1..Len(runs[r].published) :
              runs[r].published[j].type = "program-week")
          => WeekComplete(runs[r].log, runs[r].allLogs)
    /\ \A d \in BagToSet(milestones) :
          d.type = "program-week" => milestones[d] <= 1

\* ---- calculateStreak, calculations.ts

\* calculateStreak has returned for the drawn dates and streak.
StreakCalled == calcPc = "done" /\ calcIn.fn = "calculateStreak"

\* The whole-day gap between the two dates of the call.
StreakGap == calcIn.today - calcIn.lastWorkoutDate

\* C11 as stated: calculateStreak returns 1 for a null date, the streak
\* unchanged for a gap of 0, the streak plus one for a gap of 1, 2 or 3 days
\* and 1 for a longer gap; the increment applies only to gaps of 1 to 3 days.
C11_Original ==
    StreakCalled =>
        /\ calcIn.lastWorkoutDate = NULL => calcOut = 1
        /\ (calcIn.lastWorkoutDate # NULL /\ StreakGap = 0)
              => calcOut = calcIn.currentStreak
        /\ (calcIn.lastWorkoutDate # NULL /\ StreakGap \in 1..3)
              => calcOut = calcIn.currentStreak + 1
        /\ (calcIn.lastWorkoutDate # NULL /\ StreakGap > 3) => calcOut = 1
        /\ (calcIn.lastWorkoutDate # NULL /\ StreakGap \notin 0..3 /\ calcIn.currentStreak # 0)
              => calcOut # calcIn.currentStreak + 1

\* ---- the streak fields of the settings

SaveCompletes == saver.pc = "updateSettings" /\ saver'.pc \in {"toast", "finished"}

RoundCalled == calcPc = "done" /\ calcIn.fn = "roundToIncrement"

\* The result is a multiple of the increment at most half an increment away.
NearestMultiple ==
    /\ \E k \in (-(2 * MaxValue + 1))..(2 * MaxValue + 1) : calcOut = k * calcIn.increment
    /\ 2 * Abs(calcIn.value - calcOut) <= Abs(calcIn.increment)

\* The quotient value/increment lies halfway between two integers.
Halfway == 2 * Abs(calcIn.value - calcOut) = Abs(calcIn.increment)

\* C14 as stated: value unchanged for increment 0, otherwise a nearest
\* multiple of the increment, a halfway quotient rounded away from zero.
C14_Original ==
    RoundCalled =>
        IF calcIn.increment = 0 THEN calcOut = calcIn.value
        ELSE /\ NearestMultiple
             /\ Halfway => Abs(calcOut) > Abs(calcIn.value)

\* C14 (amended): value unchanged for increment 0, otherwise a nearest
\* multiple of the increment, a halfway quotient rounded to the larger of
\* the two integers: away from zero when the quotient is positive, toward
\* zero when it is negative.
C14_RoundHalfUp ==
    RoundCalled =>
        IF calcIn.increment = 0 THEN calcOut = calcIn.value
        ELSE /\ NearestMultiple
             /\ Halfway =>
                   IF (calcIn.value < 0) # (calcIn.increment < 0)
                   THEN Abs(calcOut) < Abs(calcIn.value)
                   ELSE Abs(calcOut) > Abs(calcIn.value)

\* roundToIncrement(-3, 2): the quotient -1.5 gives -1, the result -2.
C14_Witness ==
    /\ RoundCalled
    /\ calcIn.value = -3 /\ calcIn.increment = 2
    /\ calcOut = -2

\* estimateE1RM has returned for the drawn weight and reps.
E1RMCalled == calcPc = "done" /\ calcIn.fn = "estimateE1RM"

\* C15: estimateE1RM returns 0 for reps <= 0, the weight itself for reps = 1
\* (never weight * 31/30), and weight * (1 + reps/30) for reps >= 2;
\* estimateE1RM(100, 5) is 100 * 35/30.  Values are times 30.
C15_EstimateE1RM ==
    E1RMCalled =>
        /\ calcIn.reps <= 0 => calcOut = 0
        /\ calcIn.reps = 1 =>
              /\ calcOut = 30 * calcIn.weight
              /\ calcIn.weight # 0 => calcOut # 31 * calcIn.weight
        /\ calcIn.reps >= 2 => calcOut = 30 * calcIn.weight + calcIn.reps * calcIn.weight
        /\ (calcIn.weight = 100 /\ calcIn.reps = 5) => calcOut = 3500

\* estimateE1RM(225, 1) has returned 225.
C15_Witness ==
    /\ E1RMCalled
    /\ calcIn.weight = 225 /\ calcIn.reps = 1
    /\ calcOut = 30 * 225

\* computeLoad has returned for the drawn arguments.
LoadCalled == calcPc = "done" /\ calcIn.fn = "computeLoad"

\* The training max of the call in the fixed-point unit of the display unit:
\* the pounds themselves for 'lbs', pounds * 0.45359237 for 'kg'.
TMInDisplayUnit ==
    IF calcIn.displayUnits = "lbs" THEN calcIn.trainingMaxLbs * 100
    ELSE calcIn.trainingMaxLbs * LBS_TO_KG_E8

\* C16: computeLoad returns exact = (training max in the display unit) *
\* percent and rounded = roundToIncrement(exact, roundingIncrement), with no
\* conversion for 'lbs'; computeLoad(315, 0.67, 5, 'lbs') has exact 211.05
\* and rounded 210.
C16_ComputeLoad ==
    LoadCalled =>
        LET inc == calcIn.roundingIncrement10 * (LoadScale(calcIn.displayUnits) \div 10)
        IN /\ calcOut.exact = TimesPercent(TMInDisplayUnit, calcIn.percent100)
           /\ calcIn.displayUnits = "lbs" =>
                 calcOut.exact = calcIn.trainingMaxLbs * calcIn.percent100
           /\ calcOut.rounded = roundToIncrement(calcOut.exact, inc)
           /\ inc = 0 => calcOut.rounded = calcOut.exact
           /\ inc # 0 =>
                 /\ calcOut.rounded % inc = 0
                 /\ 2 * (calcOut.rounded - calcOut.exact) <= inc
                 /\ 2 * (calcOut.exact - calcOut.rounded) <= inc
           /\ (/\ calcIn.trainingMaxLbs = 315 /\ calcIn.percent100 = 67
               /\ calcIn.roundingIncrement10 = 50 /\ calcIn.displayUnits = "lbs") =>
                 calcOut = [rounded |-> 21000, exact |-> 21105]

\* computeLoad(315, 0.67, 5, 'lbs') has returned exact 211.05, rounded 210.
C16_Witness ==
    /\ LoadCalled
    /\ calcIn.trainingMaxLbs = 315 /\ calcIn.percent100 = 67
    /\ calcIn.roundingIncrement10 = 50 /\ calcIn.displayUnits = "lbs"
    /\ calcOut.exact = 21105 /\ calcOut.rounded = 21000

\* The documents of the cloud when the running (or last) sync was called.
CloudKeptAsAtStart ==
    /\ sync.cloudAtStart.settings # <<>> =>
          cloudDb.settings = sync.cloudAtStart.settings
    /\ sync.cloudAtStart.logs \subseteq cloudDb.logs

\* C17: syncLocalToCloud writes the local settings only if the cloud had no
\* settings document and a local log only if the cloud had no log of that
\* id; what the cloud held at the call is unchanged; after a sync that
\* returned every local log id is in the cloud; and a sync called right
\* after one that returned writes nothing and returns (false, 0).
C17_SyncOnlyAddsMissing ==
    sync.run >= 1 =>
        /\ 0 \in sync.wrote =>
              /\ sync.cloudAtStart.settings = <<>>
              /\ localDb.settings # <<>>
              /\ cloudDb.settings = localDb.settings
        /\ \A id \in sync.wrote \ {0} :
              /\ id \notin LogIds(sync.cloudAtStart.logs)
              /\ LocalLog(id) \in localDb.logs
              /\ LocalLog(id) \in cloudDb.logs
        /\ CloudKeptAsAtStart
        /\ sync.pc = "returned" =>
              /\ LogIds(localDb.logs) \subseteq LogIds(cloudDb.logs)
              /\ sync.settingsSynced = (0 \in sync.wrote)
              /\ sync.logsSynced = Cardinality(sync.wrote \ {0})
              /\ sync.prev = "returned" =>
                    /\ sync.settingsSynced = FALSE
                    /\ sync.logsSynced = 0
                    /\ cloudDb = sync.cloudAtStart

\* A second sync has returned after a first one that uploaded the settings
\* and a log, while a log id held by both stores kept its cloud content.
C17_Witness ==
    /\ sync.pc = "returned" /\ sync.prev = "returned" /\ sync.run = 2
    /\ sync.logsSynced = 0 /\ sync.settingsSynced = FALSE
    /\ cloudDb.settings = <<[id |-> "default", data |-> "local"]>>
    /\ \E a, b \in 1..MaxLogId :
          /\ LocalLog(a) \in localDb.logs /\ LocalLog(a) \in cloudDb.logs
          /\ LocalLog(b) \in localDb.logs /\ CloudLog(b) \in cloudDb.logs

\* The completed sets with a weight of entry i of the current log.
SessionSets(i) ==
    {x \in Range(currentLog.entries[i].sets) : x.completed /\ x.weight # NULL}

\* The best sets of entry i: highest weight, then most reps (no reps
\* counting as 0).
BestSetsOf(i) ==
    {b \in SessionSets(i) :
        \A x \in SessionSets(i) :
            \/ b.weight > x.weight
            \/ (b.weight = x.weight /\ OrZero(b.reps) >= OrZero(x.reps))}

\* The sets logged for the exercise of entry i in any entry, skipped or
\* not, of the other logs that have completedAt set.
AllPriorSetsOf(i) ==
    UNION {UNION {Range(allLogs[l].entries[e].sets) :
                    e \in {k \in 1..Len(allLogs[l].entries) :
                             allLogs[l].entries[k].exerciseName
                                = currentLog.entries[i].exerciseName}} :
             l \in {k \in 1..Len(allLogs) :
                      allLogs[k].id # currentLog.id /\ allLogs[k].completedAt}}

\* The Epley E1RM, times 30, of a set with a weight and positive reps.
Epley30(s) == IF s.reps = 1 THEN 30 * s.weight ELSE s.weight * 30 + s.weight * s.reps

\* The E1RMs, times 30, of the completed sets of `sets` that have a non-zero
\* weight and positive reps.
E1RMsOf(sets) ==
    {Epley30(x) : x \in {s \in sets : /\ s.completed
                                       /\ s.weight # NULL /\ s.weight # 0
                                       /\ s.reps # NULL /\ s.reps > 0}}

\* Entry i is not skipped, its best set has a non-zero weight and positive
\* reps, and the E1RM of that set is above every E1RM of `prior`, of which
\* there is one.
QualifiesE1RMPR(i, prior) ==
    /\ ~currentLog.entries[i].skipped
    /\ E1RMsOf(prior) # {}
    /\ \E b \in BestSetsOf(i) :
          /\ b.weight # 0 /\ b.reps # NULL /\ b.reps > 0
          /\ \A e \in E1RMsOf(prior) : Epley30(b) > e

\* The pr-e1rm reactions before truncation are those of the entries that
\* qualify, one each, of priority 95; the prior sets are those of every
\* entry (withSkipped) or those of non-skipped entries.
E1RMPRExactly(withSkipped) ==
    (Evaluated /\ ~Gate) =>
        /\ \A i \in 1..Len(currentLog.entries) :
              Cardinality(Pushed("pr-e1rm", i))
                 = (IF QualifiesE1RMPR(i, IF withSkipped THEN AllPriorSetsOf(i)
                                                         ELSE PriorSetsOf(i))
                    THEN 1 ELSE 0)
        /\ \A k \in 1..Len(reactions) :
              reactions[k].triggerType = "pr-e1rm" => reactions[k].priority = 95

\* C18 as stated: the prior E1RM is the largest over the sets of the
\* exercise in the other completed logs, those of skipped entries included.
C18_Original == E1RMPRExactly(TRUE)

\* C18 (amended): before truncation there is a pr-e1rm reaction, of priority
\* 95, for a non-skipped entry exactly when its best set has a non-zero
\* weight and positive reps and its Epley E1RM is strictly above the largest
\* E1RM over the completed sets with weight and positive reps of the same
\* exercise name in non-skipped entries of the other completed logs; with no
\* such prior set there is none.
C18_E1RMPRPerEntry == E1RMPRExactly(FALSE)

\* A pr-e1rm reaction without a pr-weight reaction for an entry whose E1RM is
\* below that of a completed set held by a skipped entry of a prior log.
C18_Witness ==
    /\ Evaluated /\ ~Gate
    /\ Len(currentLog.entries) >= 1
    /\ Pushed("pr-e1rm", 1) # {} /\ Pushed("pr-weight", 1) = {}
    /\ \E b \in BestSetsOf(1) :
          \E e \in E1RMsOf(AllPriorSetsOf(1)) \ E1RMsOf(PriorSetsOf(1)) : e > Epley30(b)

\* The reps of the completed sets logged at weight w for the exercise of
\* entry i in non-skipped entries of the other completed logs.
PriorRepsAt(i, w) ==
    {s.reps : s \in {x \in PriorSetsOf(i) :
                       x.completed /\ x.weight = w /\ x.reps # NULL}}

\* Entry i is not skipped and the reps of its best set are above the reps of
\* every prior completed set at exactly that weight, of which there is one.
QualifiesRepPR(i) ==
    /\ ~currentLog.entries[i].skipped
    /\ \E b \in BestSetsOf(i) :
          /\ b.reps # NULL
          /\ PriorRepsAt(i, b.weight) # {}
          /\ \A r \in PriorRepsAt(i, b.weight) : b.reps > r

\* C19: before truncation there is a pr-rep reaction, of priority 90, for a
\* non-skipped entry exactly when the reps of its best set are strictly above
\* the highest reps of any completed set logged at exactly the same weight
\* for the same exercise name in the other completed logs; with no prior
\* completed set at that weight there is none.
C19_Original ==
    (Evaluated /\ ~Gate) =>
        /\ \A i \in 1..Len(currentLog.entries) :
              Cardinality(Pushed("pr-rep", i)) = (IF QualifiesRepPR(i) THEN 1 ELSE 0)
        /\ \A k \in 1..Len(reactions) :
              reactions[k].triggerType = "pr-rep" => reactions[k].priority = 90

\* The best set of entry i as the reduce leaves it: the first of the best
\* sets in the order of the entry.
FirstBestSet(i) ==
    LET sets == currentLog.entries[i].sets
    IN sets[SetMin({k \in 1..Len(sets) : sets[k] \in BestSetsOf(i)})]

\* The other completed logs.
OtherCompletedLogs ==
    {l \in 1..Len(allLogs) : allLogs[l].id # currentLog.id /\ allLogs[l].completedAt}

\* The completed sets of log l, logged for the exercise of entry i in a
\* non-skipped entry, that have an RPE and a weight within 5 units of w.
RpeSetsNear(i, l, w) ==
    {s \in UNION {Range(allLogs[l].entries[e].sets) :
                    e \in {k \in 1..Len(allLogs[l].entries) :
                             /\ allLogs[l].entries[k].exerciseName
                                  = currentLog.entries[i].exerciseName
                             /\ ~allLogs[l].entries[k].skipped}} :
        /\ s.completed /\ s.rpe # NULL /\ s.weight # NULL
        /\ s.weight - w <= 5 /\ w - s.weight <= 5}

\* The logs of latest date among the other completed logs that hold such a
\* set.
LatestRpeLogs(i, w) ==
    {l \in OtherCompletedLogs :
        /\ RpeSetsNear(i, l, w) # {}
        /\ \A m \in OtherCompletedLogs :
              RpeSetsNear(i, m, w) # {} => allLogs[m].date <= allLogs[l].date}

\* Entry i has a best set with an RPE strictly below the RPE of the most
\* recent prior set near its weight.
QualifiesRpeDrop(i) ==
    /\ ~currentLog.entries[i].skipped
    /\ SessionSets(i) # {}
    /\ LET b == FirstBestSet(i)
       IN /\ b.rpe # NULL
          /\ LatestRpeLogs(i, b.weight) # {}
          /\ \A l \in LatestRpeLogs(i, b.weight) :
                \A s \in RpeSetsNear(i, l, b.weight) : b.rpe < s.rpe

\* C20: there is an rpe-drop reaction, of priority 70, for an entry exactly
\* when its best set has an RPE strictly below the RPE of the most recent
\* prior completed set, the latest by log date among the other completed
\* logs whatever the order of allLogs, logged for the same exercise with an
\* RPE and a weight within 5 units of the best set's weight.
C20_Original ==
    (Evaluated /\ ~Gate) =>
        /\ \A i \in 1..Len(currentLog.entries) :
              Cardinality(Pushed("rpe-drop", i)) = (IF QualifiesRpeDrop(i) THEN 1 ELSE 0)
        /\ \A k \in 1..Len(reactions) :
              reactions[k].triggerType = "rpe-drop" => reactions[k].priority = 70

\* The skipped entries of the current log whose name contains no main-lift
\* keyword.
SkippedAccessories ==
    {i \in 1..Len(currentLog.entries) :
        /\ currentLog.entries[i].skipped
        /\ \A kw \in MAIN_LIFT_KEYWORDS :
              ~NameIncludes(currentLog.entries[i].exerciseName, kw)}

\* The positions of `reactions` holding a reaction of the type.
PushedOfType(triggerType) ==
    {k \in 1..Len(reactions) : reactions[k].triggerType = triggerType}

\* C21: before truncation there is exactly one skipped-accessories reaction,
\* of priority 30, when at least one skipped entry has a name with no
\* main-lift keyword, however many there are, and none when every skipped
\* entry matches a keyword or no entry is skipped.
C21_OneSkippedAccessories ==
    (Evaluated /\ ~Gate) =>
        /\ Cardinality(PushedOfType("skipped-accessories"))
              = (IF SkippedAccessories # {} THEN 1 ELSE 0)
        /\ \A k \in PushedOfType("skipped-accessories") : reactions[k].priority = 30

\* Two skipped accessories, one reaction.
C21_Witness ==
    /\ Evaluated /\ ~Gate
    /\ Cardinality(SkippedAccessories) = 2
    /\ Cardinality(PushedOfType("skipped-accessories")) = 1

\* The phase of a week of the program, by the table of the specification.
PhaseOfWeek(w) ==
    CASE w \in 1..4 -> "accumulation"
      [] w \in 5..8 -> "intensification"
      [] w \in 9..11 -> "peaking"
      [] w \in 12..15 -> "competition-prep"
      [] w = 16 -> "taper"

\* C22: whenever evaluateReactions does not short-circuit, the list before
\* truncation holds exactly one phase-message reaction, of priority 10, for
\* the phase of the week of the current log: weeks 1-4 accumulation, 5-8
\* intensification, 9-11 peaking, 12-15 competition-prep, 16 taper.
C22_OnePhaseMessage ==
    (Evaluated /\ ~Gate) =>
        /\ Cardinality(PushedOfType("phase-message")) = 1
        /\ \A k \in PushedOfType("phase-message") :
              /\ reactions[k].priority = 10
              /\ currentLog.weekNumber \in 1..16 =>
                    reactions[k].message = PhaseOfWeek(currentLog.weekNumber)

\* The last week of peaking has its phase message.
C22_Witness ==
    /\ Evaluated /\ ~Gate
    /\ currentLog.weekNumber = 11
    /\ \E k \in PushedOfType("phase-message") : reactions[k].message = "peaking"

\* getStreakMessage has returned for the drawn count and mode.
StreakMessageCalled == calcPc = "done" /\ calcIn.fn = "getStreakMessage"

\* The streak-message days that are at most n.
MilestoneDaysUpTo(n) == {d \in {1, 3, 5, 7, 14, 21, 30, 50} : d <= n}

\* C23: getStreakMessage returns null for mode 'silent'; otherwise it finds
\* the highest milestone day at most the current streak and returns a streak
\* reaction (category STREAK, priority 80) for it.
C23_Original ==
    StreakMessageCalled =>
        /\ calcIn.mode = "silent" => calcOut = <<>>
        /\ (calcIn.mode # "silent" /\ MilestoneDaysUpTo(calcIn.streakCount) # {}) =>
              /\ Len(calcOut) = 1
              /\ calcOut[1].triggerType = "streak"
              /\ calcOut[1].category = "STREAK"
              /\ calcOut[1].priority = 80

\* getMissedWorkoutMessage has returned for the drawn arguments.
MissedCalled == calcPc = "done" /\ calcIn.fn = "getMissedWorkoutMessage"

\* The message key of the tier of h hours, for 2 <= h < 48.
TierOfHours(h) ==
    IF h < 12 THEN "missed-2-12" ELSE IF h < 24 THEN "missed-12-24" ELSE "missed-24-48"

\* C24: getMissedWorkoutMessage returns null for mode 'silent', for
\* hoursMissed < 2 and for every hoursMissed >= 48 whatever
\* consecutiveMisses is; for hoursMissed in [2, 48) it returns a
\* missed-workout reaction of the tier [2,12), [12,24) or [24,48).
C24_Original ==
    MissedCalled =>
        /\ calcIn.mode = "silent" => calcOut = <<>>
        /\ calcIn.hoursMissed >= 48 => calcOut = <<>>
        /\ calcIn.hoursMissed < 2 => calcOut = <<>>
        /\ (calcIn.mode # "silent" /\ calcIn.hoursMissed >= 2 /\ calcIn.hoursMissed < 48) =>
              /\ Len(calcOut) = 1
              /\ calcOut[1].triggerType = "missed-workout"
              /\ calcOut[1].message = TierOfHours(calcIn.hoursMissed)

\* The calls of the operation that have finished.
FinishedCalls(op) ==
    {c \in 1..Len(friends.calls) :
        friends.calls[c].op = op /\ ~InFlight(friends.calls[c])}

\* The pending requests between a and b, in either direction.
PendingBetween(a, b) ==
    {k \in 1..Len(friends.requests) :
        /\ friends.requests[k].status = "pending"
        /\ {friends.requests[k].from, friends.requests[k].to} = {a, b}}

\* C25: sendFriendRequest throws and creates no request when from equals to,
\* when a pending request exists between the two in either direction, or
\* when they are friends; otherwise it creates exactly one pending request;
\* so there is at most one pending request per unordered pair of users, also
\* when the two send to each other at overlapping times.
C25_Original ==
    /\ \A c \in FinishedCalls("send") :
          LET call == friends.calls[c]
          IN /\ call.pc = "threw" => call.created = 0
             /\ call.pc = "returned" =>
                   /\ call.created \in 1..Len(friends.requests)
                   /\ friends.requests[call.created].from = call.from
                   /\ friends.requests[call.created].to = call.to
             /\ call.from = call.to => call.pc = "threw"
             /\ (call.alone /\ (call.pendingAtStart \/ call.friendsAtStart)) =>
                   call.pc = "threw"
             /\ (/\ call.alone /\ ~call.netRejected /\ call.from # call.to
                 /\ ~call.pendingAtStart /\ ~call.friendsAtStart) =>
                   call.pc = "returned"
    /\ \A a, b \in Users : a # b => Cardinality(PendingBetween(a, b)) <= 1

\* The friendship documents of a and b.
FriendshipsOf(a, b) ==
    {k \in 1..Len(friends.friendships) :
        /\ ~friends.friendships[k].deleted
        /\ Range(friends.friendships[k].users) = {a, b}}

\* C26: after any sequence of sendFriendRequest, acceptFriendRequest,
\* rejectFriendRequest and removeFriend calls there is at most one friendship
\* document per unordered pair of users, a friendship exists only for a
\* request whose status is 'accepted', and accepting a request that is
\* already accepted or rejected creates no friendship.
C26_Original ==
    (\A c \in 1..Len(friends.calls) : ~InFlight(friends.calls[c])) =>
        /\ \A a, b \in Users : a # b => Cardinality(FriendshipsOf(a, b)) <= 1
        /\ \A a, b \in Users :
              FriendshipsOf(a, b) # {} =>
                 \E k \in 1..Len(friends.requests) :
                    /\ friends.requests[k].status = "accepted"
                    /\ {friends.requests[k].from, friends.requests[k].to} = {a, b}
        /\ \A c \in FinishedCalls("accept") :
              (friends.calls[c].alone /\ friends.calls[c].statusAtStart # "pending") =>
                 friends.calls[c].created = 0

\* The celebration documents of the milestone written for the user.
CelebrationsBy(fromUid) ==
    {k \in 1..Len(cheers.celebrations) :
        /\ cheers.celebrations[k].milestoneId = "m1"
        /\ cheers.celebrations[k].fromUid = fromUid}

\* C27: after any sequence of celebrateMilestone calls, overlapping calls of
\* one user and calls whose count update fails included, there is at most
\* one celebration document per (milestoneId, fromUid), and once all calls
\* have finished celebrationCount is the number of celebration documents of
\* the milestone.
C27_Original ==
    /\ \A u \in Users : Cardinality(CelebrationsBy(u)) <= 1
    /\ (\A c \in 1..Len(cheers.calls) : cheers.calls[c].pc \in {"returned", "threw"}) =>
          cheers.celebrationCount = Len(cheers.celebrations)

\* C30: evaluateReactions never emits both a pr-weight and a pr-rep reaction
\* for the same entry: a best weight above every prior completed weight
\* leaves no prior completed set at the best set's weight.
C30_NoWeightAndRepPR ==
    Evaluated =>
        \A i \in 1..Len(currentLog.entries) :
            /\ ~(Pushed("pr-weight", i) # {} /\ Pushed("pr-rep", i) # {})
            /\ (Pushed("pr-weight", i) # {} /\ SessionSets(i) # {}) =>
                  \A b \in BestSetsOf(i) : PriorRepsAt(i, b.weight) = {}

\* A pr-weight reaction for an entry whose best set has more reps than a
\* prior completed set of the exercise, which was done at a lower weight.
C30_Witness ==
    /\ Evaluated /\ ~Gate
    /\ Len(currentLog.entries) >= 1
    /\ Pushed("pr-weight", 1) # {} /\ Pushed("pr-rep", 1) = {}
    /\ \E b \in BestSetsOf(1) :
          \E s \in PriorSetsOf(1) :
             s.completed /\ s.weight # NULL /\ s.reps # NULL /\ b.reps # NULL
             /\ s.weight < b.weight /\ s.reps < b.reps

\* handleSave has combined the reactions of the save and set what is shown.
ReactionsCombined == saver.pc \in {"toast", "finished"}

\* The save speaks: reactions enabled and a mode other than 'silent'.
SaveSpeaks ==
    saver.settings.reactionsEnabled /\ saver.settings.personalityMode # "silent"

\* The save has a streak reaction: streaks enabled and the new streak is a
\* streak-message day.
StreakReactionDue ==
    /\ SaveSpeaks
    /\ saver.settings.streaksEnabled
    /\ saver.newStreak \in {1, 3, 5, 7, 14, 21, 30, 50}

\* The list is in non-increasing priority order.
NonIncreasing(rs) ==
    \A j, k \in 1..Len(rs) : j < k => rs[j].priority >= rs[k].priority

\* The displayed list is the streak reaction, when due, followed by the
\* output of evaluateReactions, cut to maxReactionsPerWorkout elements.
DisplayedAsCombined ==
    LET shown == saver.showReactions
        mx == saver.settings.maxReactionsPerWorkout
    IN /\ Len(shown) <= mx
       /\ ~SaveSpeaks => shown = <<>>
       /\ StreakReactionDue =>
             /\ Len(shown) >= 1
             /\ shown[1].triggerType = "streak" /\ shown[1].priority = 80
             /\ Tail(shown) = SubSeq(saver.reactions, 1, Len(shown) - 1)
             /\ Len(shown) = (IF Len(saver.reactions) + 1 < mx
                              THEN Len(saver.reactions) + 1 ELSE mx)
       /\ (SaveSpeaks /\ ~StreakReactionDue) => shown = saver.reactions

C28_Original ==
    /\ Len(logger.saved) <= 1
    /\ logger.streakUpdates <= 1
    /\ logger.detections <= 1
====
